---------------------------- MODULE Spec2Model ----------------------------
(***************************************************************************)
(* Field-extraction and document-classification pipeline of DocAi          *)
(* (src/DocAi/detection/views.py, lines 129-549), and the upload request   *)
(* with the detector it uses (views.py 22-78, forgery_detector.py).        *)
(*                                                                         *)
(* A text is a string (the matcher reads it as a sequence of one-character *)
(* strings).  The alphabet is ASCII                                        *)
(* plus three stand-ins for the non-ASCII code points that occur in the    *)
(* source literals (TLA+ strings are ASCII):                               *)
(*     "~"  U+CE68   (in the literal 'espa~a')                             *)
(*     "^"  U+CE58   (in the literal 'v^lido')                             *)
(*     "$"  any code point of U+D49F..U+D52D (the fifth Nationality token) *)
(* All three are letters without case: \w matches them, lower() and        *)
(* upper() leave them alone.                                               *)
(***************************************************************************)
EXTENDS Integers, Sequences, FiniteSets, TLC

(***************************************************************************)
(* Characters and Python's str methods.                                    *)
(***************************************************************************)
Chars(s) == [i \in 1..Len(s) |-> SubSeq(s, i, i)]

\* The(S) is the element of the one-element set S.  The({e(v) : v \in {d}})
\* is e with v bound to the value of d, computed once: an assignment v = d.
The(S) == CHOOSE v \in S : TRUE

LowerAlpha == Chars("abcdefghijklmnopqrstuvwxyz")
UpperAlpha == Chars("ABCDEFGHIJKLMNOPQRSTUVWXYZ")
Range(f) == {f[i] : i \in DOMAIN f}
Digit == Range(Chars("0123456789"))
Space == {" ", "\n", "\t"}
NonAscii == {"~", "^", "$"}
Word == Range(LowerAlpha) \cup Range(UpperAlpha) \cup Digit \cup {"_"} \cup NonAscii

\* str.lower() and str.upper()
lowerChar(c) == IF \E i \in 1..26 : UpperAlpha[i] = c
                THEN LowerAlpha[CHOOSE i \in 1..26 : UpperAlpha[i] = c] ELSE c
upperChar(c) == IF \E i \in 1..26 : LowerAlpha[i] = c
                THEN UpperAlpha[CHOOSE i \in 1..26 : LowerAlpha[i] = c] ELSE c
\* ''.join(cs), halving so that the evaluation stays shallow
RECURSIVE Str(_)
Str(cs) ==
    IF cs = <<>> THEN ""
    ELSE IF Len(cs) = 1 THEN cs[1]
    ELSE Str(SubSeq(cs, 1, Len(cs) \div 2)) \o Str(SubSeq(cs, Len(cs) \div 2 + 1, Len(cs)))
lower(s) == Str([i \in 1..Len(s) |-> lowerChar(SubSeq(s, i, i))])
upper(s) == Str([i \in 1..Len(s) |-> upperChar(SubSeq(s, i, i))])

\* str.strip(): drop leading and trailing whitespace
strip(s) ==
    The({IF keep = {} THEN ""
         ELSE SubSeq(s, CHOOSE i \in keep : \A j \in keep : i <= j,
                        CHOOSE i \in keep : \A j \in keep : i >= j)
         : keep \in {{i \in 1..Len(s) : SubSeq(s, i, i) \notin Space}}})

\* Python's `k in s` for strings
Contains(s, k) ==
    \E i \in 0..(Len(s) - Len(k)) : SubSeq(s, i + 1, i + Len(k)) = k

(***************************************************************************)
(* Python's re module: a backtracking matcher.  A pattern is a tree of     *)
(* records; M(r, s, st) is the sequence of outcomes of matching r in text  *)
(* s from st = <<position, captures>>, in the order in which the           *)
(* backtracking engine tries them, so its head is the match re returns.    *)
(* re.IGNORECASE is compiled into the tree: ClsI and LitI close a class    *)
(* or a literal under case.                                                *)
(***************************************************************************)
Cls(S) == [t |-> "cls", s |-> S]
ClsI(S) == Cls(S \cup {lowerChar(c) : c \in S} \cup {upperChar(c) : c \in S})
NotCls(S) == [t |-> "ncls", s |-> S]
NotClsI(S) == NotCls(S \cup {lowerChar(c) : c \in S} \cup {upperChar(c) : c \in S})
Lit(str) == [t |-> "lit", cs |-> [i \in 1..Len(str) |-> {SubSeq(str, i, i)}]]
LitI(str) == [t |-> "lit", cs |-> [i \in 1..Len(str) |->
                 {lowerChar(SubSeq(str, i, i)), upperChar(SubSeq(str, i, i))}]]
Cat(rs) == [t |-> "cat", rs |-> rs]
Alt(rs) == [t |-> "alt", rs |-> rs]
Rep(r, lo, hi) == [t |-> "rep", r |-> r, lo |-> lo, hi |-> hi]
Grp(k, r) == [t |-> "grp", k |-> k, r |-> r]
Ahead(r) == [t |-> "ahead", r |-> r]
NotAhead(r) == [t |-> "nahead", r |-> r]
WB == [t |-> "wb"]
EOS == [t |-> "eos"]
\* hi = -1: no upper limit
Star(r) == Rep(r, 0, -1)
Plus(r) == Rep(r, 1, -1)
Opt(r) == Rep(r, 0, 1)

IsWordAt(s, i) == i >= 1 /\ i <= Len(s) /\ s[i] \in Word

RECURSIVE M(_, _, _), MAll(_, _, _), MCat(_, _, _, _), MAlt(_, _, _, _), MRep(_, _, _, _)
M(r, s, st) ==
    LET i == st[1] IN
    CASE r.t = "cls" -> IF i <= Len(s) /\ s[i] \in r.s THEN << <<i + 1, st[2]>> >> ELSE <<>>
      [] r.t = "ncls" -> IF i <= Len(s) /\ s[i] \notin r.s THEN << <<i + 1, st[2]>> >> ELSE <<>>
      [] r.t = "lit" -> IF /\ i + Len(r.cs) - 1 <= Len(s)
                           /\ \A k \in 1..Len(r.cs) : s[i + k - 1] \in r.cs[k]
                        THEN << <<i + Len(r.cs), st[2]>> >> ELSE <<>>
      [] r.t = "cat" -> MCat(r.rs, 1, s, <<st>>)
      [] r.t = "alt" -> MAlt(r.rs, 1, s, st)
      [] r.t = "rep" -> MRep(r, 0, s, st)
      [] r.t = "grp" -> The({[n \in 1..Len(in) |->
                                 <<in[n][1], [in[n][2] EXCEPT ![r.k] = <<i, in[n][1]>>]>>]
                              : in \in {M(r.r, s, st)}})
      [] r.t = "ahead" -> IF M(r.r, s, st) # <<>> THEN <<st>> ELSE <<>>
      [] r.t = "nahead" -> IF M(r.r, s, st) = <<>> THEN <<st>> ELSE <<>>
      [] r.t = "wb" -> IF IsWordAt(s, i - 1) # IsWordAt(s, i) THEN <<st>> ELSE <<>>
      [] r.t = "eos" -> IF i = Len(s) + 1 \/ (i = Len(s) /\ s[i] = "\n")
                        THEN <<st>> ELSE <<>>
\* every outcome of r from each of the states sts, in order
MAll(r, s, sts) ==
    IF sts = <<>> THEN <<>> ELSE M(r, s, Head(sts)) \o MAll(r, s, Tail(sts))
MCat(rs, k, s, sts) ==
    IF k > Len(rs) \/ sts = <<>> THEN sts ELSE MCat(rs, k + 1, s, MAll(rs[k], s, sts))
MAlt(rs, k, s, st) ==
    IF k > Len(rs) THEN <<>> ELSE M(rs[k], s, st) \o MAlt(rs, k + 1, s, st)
\* greedy repetition: one more round first, then (from lo rounds on) stop here
MRep(r, n, s, st) ==
    LET more == IF r.hi < 0 \/ n < r.hi
                THEN SelectSeq(M(r.r, s, st), LAMBDA x : x[1] > st[1])
                ELSE <<>>
        RECURSIVE Each(_)
        Each(xs) == IF xs = <<>> THEN <<>> ELSE MRep(r, n + 1, s, Head(xs)) \o Each(Tail(xs))
    IN  Each(more) \o (IF n >= r.lo THEN <<st>> ELSE <<>>)

\* a compiled pattern: the tree and its number of capture groups
Pat(ng, r) == [ng |-> ng, r |-> r]
NoCaps(p) == [k \in 1..p.ng |-> <<0, 0>>]
\* the match starting at position i, or <<>>: <<start, end, captures>>
MatchAt(p, s, i) ==
    The({IF out = <<>> THEN <<>> ELSE <<i, out[1][1], out[1][2]>>
         : out \in {M(p.r, s, <<i, NoCaps(p)>>)}})
\* the leftmost match starting at a position of lo..hi, or <<>> (halving the
\* range so that the evaluation stays shallow)
RECURSIVE first(_, _, _, _)
first(p, cs, lo, hi) ==
    IF lo > hi THEN <<>>
    ELSE IF lo = hi THEN MatchAt(p, cs, lo)
    ELSE The({IF left # <<>> THEN left ELSE first(p, cs, (lo + hi) \div 2 + 1, hi)
              : left \in {first(p, cs, lo, (lo + hi) \div 2)}})
scan(p, cs, i) == first(p, cs, i, Len(cs) + 1)
\* re.search
search(p, s) == scan(p, Chars(s), 1)
\* the non-overlapping matches from position i on, left to right
RECURSIVE finditer(_, _, _)
finditer(p, cs, i) ==
    The({IF m = <<>> THEN <<>>
         ELSE <<m>> \o finditer(p, cs, IF m[2] > m[1] THEN m[2] ELSE m[1] + 1)
         : m \in {scan(p, cs, i)}})
\* re.findall: per match the tuple of its groups ('' for a group that did not
\* take part); a pattern without groups yields the whole match
findall(p, s) ==
    The({[n \in 1..Len(ms) |->
            IF p.ng = 0 THEN <<SubSeq(s, ms[n][1], ms[n][2] - 1)>>
            ELSE [k \in 1..p.ng |->
                    IF ms[n][3][k][1] = 0 THEN ""
                    ELSE SubSeq(s, ms[n][3][k][1], ms[n][3][k][2] - 1)]]
         : ms \in {finditer(p, Chars(s), 1)}})
\* re.sub with a plain replacement string
\* the text with the matches ms, from the n-th on, replaced; from is where the
\* part not yet copied starts
RECURSIVE replace(_, _, _, _, _)
replace(ms, repl, s, n, from) ==
    IF n > Len(ms) THEN SubSeq(s, from, Len(s))
    ELSE SubSeq(s, from, ms[n][1] - 1) \o repl \o replace(ms, repl, s, n + 1, ms[n][2])
sub(p, repl, s) ==
    The({replace(ms, repl, s, 1, 1) : ms \in {finditer(p, Chars(s), 1)}})

\* sub-patterns the tables below share: \s*  \s+  [:\s]*  \d  \w
S0 == Star(Cls(Space))
S1 == Plus(Cls(Space))
ColSp == Star(Cls(Space \cup {":"}))
D == Cls(Digit)
W == Cls(Word)

(***************************************************************************)
(* ultimate_preprocessing                                                  *)
(***************************************************************************)
\* str.split('\n'): the pieces between the line breaks
\* the k-th of the positions nl; 0 and last bracket them
brk(nl, k, last) ==
    IF k = 0 THEN 0
    ELSE IF k > Cardinality(nl) THEN last
    ELSE CHOOSE i \in nl : Cardinality({j \in nl : j < i}) = k - 1
split(s) ==
    The({[k \in 1..(Cardinality(nl) + 1) |->
            SubSeq(s, brk(nl, k - 1, Len(s) + 1) + 1, brk(nl, k, Len(s) + 1) - 1)]
         : nl \in {{i \in 1..Len(s) : SubSeq(s, i, i) = "\n"}}})

\* '\n'.join(lines)
RECURSIVE join(_)
join(lines) ==
    IF lines = <<>> THEN ""
    ELSE IF Len(lines) = 1 THEN lines[1]
    ELSE lines[1] \o "\n" \o join(Tail(lines))

\* the line walk: len(existing) > len(line) * 1.2 is 10 * len(existing) > 12 * len(line)
RECURSIVE unique_lines(_, _)
unique_lines(lines, kept) ==
    IF lines = <<>> THEN kept
    ELSE The({unique_lines(Tail(lines),
                  IF /\ line # "" /\ Len(line) > 1 /\ line \notin Range(kept)
                     /\ ~\E existing \in Range(kept) :
                           /\ 10 * Len(existing) > 12 * Len(line)
                           /\ Contains(existing, line)
                  THEN Append(kept, line) ELSE kept)
              : line \in {strip(Head(lines))}})

\* \bw1\s*w2\s*...\b[:\s]*
Label(ws) ==
    Pat(0, Cat(<<WB>>
               \o [n \in 1..(2 * Len(ws) - 1) |->
                     IF n % 2 = 1 THEN LitI(ws[(n + 1) \div 2]) ELSE S0]
               \o <<WB, ColSp>>))

\* the label patterns, each with the replacement ' ' of line 173
field_labels_to_remove ==
    [n \in 1..18 |-> <<
      << Label(<<"primer", "apellido">>), Label(<<"segundo", "apellido">>),
         Label(<<"nombre">>), Label(<<"nacionalidad">>), Label(<<"sexo">>),
         Label(<<"fecha", "de", "nacimiento">>), Label(<<"v^lido", "hasta">>),
         Label(<<"idesp">>), Label(<<"surname">>), Label(<<"name">>),
         Label(<<"nationality">>), Label(<<"sex">>),
         Label(<<"date", "of", "birth">>), Label(<<"place", "of", "birth">>),
         Label(<<"passport", "no">>),
         Pat(0, Cat(<<WB, LitI("iss"), Opt(Cls({"."})), S0, LitI("date"), WB, ColSp>>)),
         Label(<<"expiry">>), Label(<<"height">>) >>[n], " ">>]

\* \bw\b
WordPat(w) == Pat(0, Cat(<<WB, LitI(w), WB>>))

corrections ==
    << <<WordPat("blond"), "orestiada">>, <<WordPat("slow"), "orestiada">>,
       <<WordPat("salonika"), "thessaloniki">>, <<WordPat("kozanh"), "kozani">>,
       <<WordPat("veroia"), "veroia">>, <<WordPat("giannitsa"), "giannitsa">>,
       <<WordPat("komotini"), "komotini">>, <<WordPat("haektpa"), "elektra">>,
       <<Pat(0, Cat(<<WB, LitI("passport"), WB, NotAhead(Cat(<<S1, LitI("no")>>))>>)), "">>,
       <<WordPat("pasaport"), "">>,
       <<WordPat("nicolaidis"), "nikolaidis">>, <<WordPat("papadoulis"), "papadoulis">>,
       <<WordPat("vasiliki"), "vasiliki">>, <<WordPat("dimitris"), "dimitris">>,
       <<WordPat("hellenic"), "hellenic">>, <<WordPat("helenic"), "hellenic">>,
       <<WordPat("espana"), "espa~a">>, <<WordPat("nacionalidad"), "">>,
       <<WordPat("valido"), "v^lido">>, <<WordPat("miranda"), "miranda">>,
       <<WordPat("serrano"), "serrano">>, <<WordPat("torres"), "torres">>,
       <<WordPat("benitez"), "benitez">>, <<WordPat("moreno"), "moreno">>,
       <<WordPat("molina"), "molina">>, <<WordPat("nati"), "nati">>,
       <<WordPat("alicia"), "alicia">>, <<WordPat("alba"), "alba">>,
       <<WordPat("generated"), "">>, <<WordPat("photos"), "">>,
       <<WordPat("fake"), "">>, <<WordPat("v3"), "">> >>

\* for pattern ... : text = re.sub(pattern, replacement, text), for the entries
\* lo .. hi in order (the first half's text is computed before the second
\* half starts; halving keeps the evaluation shallow)
RECURSIVE sub_range(_, _, _, _)
sub_range(table, lo, hi, text) ==
    IF lo > hi THEN text
    ELSE IF lo = hi THEN sub(table[lo][1], table[lo][2], text)
    ELSE The({sub_range(table, (lo + hi) \div 2 + 1, hi, t)
              : t \in {sub_range(table, lo, (lo + hi) \div 2, text)}})
\* the loop from entry n on
sub_each(table, n, text) == sub_range(table, n, Len(table), text)

\* a list that is not created anew
stale_list(previous) == previous
\* lines 138-139: unique_lines = [] and seen = set(), whatever the names held
new_list(previous) == <<>>
\* lines 148-204, from the lines the walk kept
normalize_lines(kept) ==
    strip(sub(Pat(0, S1), " ",
        sub_each(corrections, 1, sub_each(field_labels_to_remove, 1, join(kept)))))

\* an early return with a marker instead of the empty string
early_return_marker == "?"
\* line 132
early_return == ""

ultimate_preprocessing(raw_ocr_text) ==
    IF raw_ocr_text = "" THEN early_return
    ELSE normalize_lines(unique_lines(split(lower(raw_ocr_text)), new_list(<<>>)))

(***************************************************************************)
(* create_validation_sets, is_valid_field_value                            *)
(***************************************************************************)
invalid_surnames ==
    {"nationality", "nacionalidad", "hellenic", "esp", "espa~a", "sex", "sexo",
     "male", "female", "date", "birth", "passport", "document", "numero",
     "valid", "height", "place", "issue", "expiry", "authority"}
invalid_names ==
    {"nationality", "nacionalidad", "hellenic", "esp", "espa~a", "sex", "sexo",
     "male", "female", "surname", "apellido", "document", "passport"}

\* [^a-z<6 code points>\s]: a character outside the expected set
garbage == Pat(0, NotCls(Range(LowerAlpha) \cup NonAscii \cup Space))

\* a validator without the Gender rule of lines 261-263
valid_any_gender(field_name, value, value_lower) ==
    IF value = "" \/ Len(strip(value)) < 2 THEN FALSE
    ELSE
      IF /\ field_name \in {"First Surname", "Second Surname", "Surname"}
         /\ \/ value_lower \in invalid_surnames
            \/ Len(value_lower) < 3 \/ Len(value_lower) > 25
      THEN FALSE
      ELSE IF /\ field_name = "Name"
              /\ \/ value_lower \in invalid_names
                 \/ Len(value_lower) < 2 \/ Len(value_lower) > 20
      THEN FALSE
      ELSE IF /\ field_name = "Nationality"
              /\ value_lower \notin {"esp", "espa~a", "hellenic", "$$$$$$$$", "greek"}
      THEN FALSE
      ELSE IF /\ search(garbage, value_lower) # <<>>
              /\ field_name \notin {"DNI Number", "Passport Number", "ID Number",
                                    "Date of Birth", "Issue Date", "Expiry Date",
                                    "Valid Until", "Height"}
      THEN FALSE
      ELSE TRUE

\* lines 241-274, on value and on value_lower as line 244 computed it
valid_folded(field_name, value, value_lower) ==
    IF value = "" \/ Len(strip(value)) < 2 THEN FALSE
    ELSE
      IF /\ field_name \in {"First Surname", "Second Surname", "Surname"}
         /\ \/ value_lower \in invalid_surnames
            \/ Len(value_lower) < 3 \/ Len(value_lower) > 25
      THEN FALSE
      ELSE IF /\ field_name = "Name"
              /\ \/ value_lower \in invalid_names
                 \/ Len(value_lower) < 2 \/ Len(value_lower) > 20
      THEN FALSE
      ELSE IF field_name = "Gender" /\ value_lower \notin {"m", "f", "male", "female"}
      THEN FALSE
      ELSE IF /\ field_name = "Nationality"
              /\ value_lower \notin {"esp", "espa~a", "hellenic", "$$$$$$$$", "greek"}
      THEN FALSE
      ELSE IF /\ search(garbage, value_lower) # <<>>
              /\ field_name \notin {"DNI Number", "Passport Number", "ID Number",
                                    "Date of Birth", "Issue Date", "Expiry Date",
                                    "Valid Until", "Height"}
      THEN FALSE
      ELSE TRUE

\* a validator that compares the value as stored, without value.lower()
is_valid_case_sensitive(field_name, value) ==
    The({valid_folded(field_name, value, v) : v \in {strip(value)}})

\* a validator without the length test of line 241: only "not value"
is_valid_one_letter(field_name, value) ==
    IF value = "" THEN FALSE
    ELSE The({valid_folded(field_name, "..", v) : v \in {strip(lower(value))}})

\* a validator whose value_lower keeps the whitespace around the value
is_valid_untrimmed(field_name, value) ==
    The({valid_folded(field_name, value, v) : v \in {lower(value)}})

is_valid_field_value(field_name, value) ==
    The({valid_folded(field_name, value, v) : v \in {strip(lower(value))}})

(***************************************************************************)
(* intelligent_document_detection                                          *)
(***************************************************************************)
spanish_keywords ==
    <<"espa~a", "dni", "esp", "primer apellido", "segundo apellido",
      "nacionalidad", "v^lido hasta">>
greek_keywords == <<"hellas", "hellenic", "passport", "greece", "grc", "nationality">>

\* 2 for every keyword that occurs in the text
\* a keyword loop that adds 2 for every place where a keyword occurs
keyword_score_per_occurrence(keywords, text_lower) ==
    2 * Cardinality({place \in (1..Len(keywords)) \X (1..Len(text_lower)) :
                        /\ place[2] + Len(keywords[place[1]]) - 1 <= Len(text_lower)
                        /\ SubSeq(text_lower, place[2],
                                  place[2] + Len(keywords[place[1]]) - 1)
                              = keywords[place[1]]})

keyword_score(keywords, text_lower) ==
    2 * Cardinality({n \in 1..Len(keywords) : Contains(text_lower, keywords[n])})

\* \d{8}[A-Z] and [A-Z]{1,3}\d{6,8}, both without re.IGNORECASE
dni_shape == Pat(0, Cat(<<Rep(D, 8, 8), Cls(Range(UpperAlpha))>>))
passport_shape == Pat(0, Cat(<<Rep(Cls(Range(UpperAlpha)), 1, 3), Rep(D, 6, 8)>>))

\* the score of one document family on the lowercased text
shape_score(shape, text_lower) == IF search(shape, text_lower) # <<>> THEN 3 ELSE 0
score(keywords, shape, text_lower) ==
    keyword_score(keywords, text_lower) + shape_score(shape, text_lower)
\* a tie-break that lets the Spanish type win ties
decide_tie_spanish(s_score, g_score) ==
    IF s_score >= g_score THEN "spanish_dni" ELSE "greek_passport"

\* line 452
decide(s_score, g_score) == IF s_score > g_score THEN "spanish_dni" ELSE "greek_passport"
intelligent_document_detection(text) ==
    The({decide(score(spanish_keywords, dni_shape, t), score(greek_keywords, passport_shape, t))
         : t \in {lower(text)}})

(***************************************************************************)
(* The extractors.  A dict is a sequence of <<key, value>> pairs with      *)
(* distinct keys, in insertion order.                                      *)
(***************************************************************************)
Keys(d) == [n \in 1..Len(d) |-> d[n][1]]
Has(d, f) == \E n \in 1..Len(d) : d[n][1] = f
Get(d, f) == d[CHOOSE n \in 1..Len(d) : d[n][1] = f][2]
\* d[f] = v: a present key keeps its place, a new key goes last
Set(d, f, v) == IF Has(d, f) THEN [n \in 1..Len(d) |-> IF d[n][1] = f THEN <<f, v>> ELSE d[n]]
                ELSE Append(d, <<f, v>>)
Del(d, f) == SelectSeq(d, LAMBDA e : e[1] # f)

\* [A-Z] and [A-Z<6 code points>] under re.IGNORECASE, [^a-z], [MF], [^0-9]
AZ == ClsI(Range(UpperAlpha))
NotAZ == NotClsI(Range(LowerAlpha))
MF == ClsI({"M", "F"})
NotDigit == NotCls(Digit)
\* \d{2}\s*\d{2}\s*\d{4}   and   \d{1,2}\s+\w{3}\s+\d{2,4}
NumDate == Cat(<<Rep(D, 2, 2), S0, Rep(D, 2, 2), S0, Rep(D, 4, 4)>>)
MonDate == Cat(<<Rep(D, 1, 2), S1, Rep(W, 3, 3), S1, Rep(D, 2, 4)>>)
\* [A-Z\.\s\-\/]
AuthChars == Range(UpperAlpha) \cup {".", "-", "/"} \cup Space

spanish_patterns ==
 << <<"First Surname",
      << Pat(1, Cat(<<Opt(Cat(<<LitI("primer"), S0, LitI("apellido"), ColSp>>)),
                      Grp(1, Rep(AZ, 3, 20)),
                      Alt(<<Cat(<<S1, LitI("segundo")>>),
                            Cat(<<S1, Rep(AZ, 3, 20), S1, Rep(AZ, 2, 15)>>),
                            Cat(<<S1, Rep(D, 8, 8), AZ>>)>>)>>)),
         Pat(2, Cat(<<Grp(1, Rep(AZ, 3, 20)), S1, Grp(2, Rep(AZ, 3, 20)),
                      Opt(Cat(<<S1, Rep(AZ, 2, 15)>>))>>)),
         Pat(1, Cat(<<LitI("documento"), Star(NotAZ), Grp(1, Rep(AZ, 3, 20))>>)),
         Pat(1, Cat(<<LitI("espa~a"), Star(NotAZ), Grp(1, Rep(AZ, 3, 20))>>)) >> >>,
    <<"Second Surname",
      << Pat(1, Cat(<<Opt(Cat(<<LitI("segundo"), S0, LitI("apellido"), ColSp>>)),
                      Grp(1, Rep(AZ, 3, 20)),
                      Alt(<<Cat(<<S1, LitI("nombre")>>),
                            Cat(<<S1, Rep(AZ, 2, 15), S1, MF>>)>>)>>)),
         Pat(1, Cat(<<Rep(AZ, 3, 20), S1, Grp(1, Rep(AZ, 3, 20)),
                      Opt(Cat(<<S1, Rep(AZ, 2, 15)>>))>>)) >> >>,
    <<"Name",
      << Pat(1, Cat(<<Opt(Cat(<<LitI("nombre"), ColSp>>)),
                      Grp(1, Rep(AZ, 2, 15)),
                      Alt(<<Cat(<<S1, MF>>),
                            Cat(<<S1, LitI("esp")>>),
                            Cat(<<S1, Rep(D, 2, 2), S1, Rep(D, 2, 2), S1, Rep(D, 4, 4)>>)>>)>>)),
         Pat(1, Cat(<<Rep(AZ, 3, 20), S1, Rep(AZ, 3, 20), S1, Grp(1, Rep(AZ, 2, 15))>>)),
         Pat(1, Cat(<<LitI("segundo"), S0, LitI("apellido"), Star(NotAZ), Plus(AZ),
                      Star(NotAZ), Grp(1, Rep(AZ, 2, 15))>>)) >> >>,
    <<"DNI Number",
      << Pat(1, Cat(<<Grp(1, Cat(<<Rep(D, 8, 8), AZ>>)), WB>>)),
         Pat(1, Cat(<<LitI("dni"), Star(NotDigit), Grp(1, Cat(<<Rep(D, 8, 8), AZ>>))>>)) >> >>,
    <<"Gender",
      << Pat(1, Cat(<<Opt(Cat(<<LitI("sexo"), ColSp>>)), Grp(1, MF),
                      Alt(<<Cat(<<S1, LitI("esp")>>), Cat(<<S1, Rep(D, 2, 2)>>)>>)>>)),
         Pat(1, Cat(<<Grp(1, MF), S0, LitI("esp"), S0, Rep(D, 2, 2)>>)),
         Pat(1, Cat(<<LitI("nombre"), Star(NotAZ), Plus(AZ), Star(NotAZ), Grp(1, MF)>>)) >> >>,
    <<"Nationality",
      << Pat(1, Cat(<<Opt(Cat(<<LitI("nacionalidad"), ColSp>>)), Grp(1, LitI("esp")),
                      Alt(<<Cat(<<S1, LitI("fecha")>>), Cat(<<S1, Rep(D, 2, 2)>>)>>)>>)),
         Pat(2, Cat(<<Grp(1, MF), S0, Grp(2, LitI("esp")), S0, Rep(D, 2, 2)>>)) >> >>,
    <<"Date of Birth",
      << Pat(1, Cat(<<Opt(Cat(<<LitI("fecha"), S0, LitI("de"), S0, LitI("nacimiento"), ColSp>>)),
                      Grp(1, NumDate)>>)),
         Pat(1, Cat(<<LitI("esp"), S0, Grp(1, NumDate)>>)) >> >>,
    <<"ID Number",
      << Pat(1, Cat(<<Opt(Cat(<<LitI("idesp"), ColSp>>)),
                      Grp(1, Cat(<<Rep(AZ, 3, 3), Rep(D, 6, 8)>>))>>)),
         Pat(2, Cat(<<Grp(1, NumDate), S0, Grp(2, Cat(<<Rep(AZ, 3, 3), Rep(D, 6, 8)>>))>>)) >> >>,
    <<"Valid Until",
      << Pat(1, Cat(<<Opt(Cat(<<LitI("v^lido"), S0, LitI("hasta"), ColSp>>)),
                      Grp(1, NumDate), NotAhead(Cat(<<S0, LitI("idesp")>>))>>)),
         Pat(1, Cat(<<Rep(AZ, 3, 3), Rep(D, 6, 8), S0, Grp(1, NumDate)>>)) >> >> >>

greek_patterns ==
 << <<"Surname",
      << Pat(1, Cat(<<Opt(Cat(<<LitI("surname"), ColSp>>)), Grp(1, Rep(AZ, 4, 25)),
                      Cat(<<S1, Rep(AZ, 3, 15), S1, LitI("hellenic")>>)>>)),
         Pat(1, Cat(<<Grp(1, Rep(AZ, 4, 25)), S1, Rep(AZ, 3, 15), S1, LitI("hellenic")>>)),
         Pat(1, Cat(<<LitI("hellenic"), S1, Grp(1, Rep(AZ, 4, 25))>>)),
         Pat(1, Cat(<<Grp(1, Alt(<<LitI("nikolaidis"), LitI("konstantopoulos"),
                                   LitI("papadoulis"), LitI("papantoniou"),
                                   LitI("anastasiou")>>)), WB>>)) >> >>,
    <<"Name",
      << Pat(1, Cat(<<Opt(Cat(<<LitI("name"), ColSp>>)), Grp(1, Rep(AZ, 3, 15)),
                      Alt(<<Cat(<<S1, LitI("hellenic")>>),
                            Cat(<<S1, MF>>),
                            Cat(<<S1, Rep(D, 2, 2), S1, Rep(W, 3, 3)>>)>>)>>)),
         Pat(1, Cat(<<Grp(1, Rep(AZ, 3, 15)), S1, LitI("hellenic")>>)),
         Pat(1, Cat(<<Rep(AZ, 4, 25), S1, Grp(1, Rep(AZ, 3, 15)), S1, LitI("hellenic")>>)),
         Pat(1, Cat(<<Grp(1, Alt(<<LitI("dimitris"), LitI("vasiliki"), LitI("konstantinos"),
                                   LitI("elektra"), LitI("maria"), LitI("anna"),
                                   LitI("sofia")>>)), WB>>)),
         Pat(1, Grp(1, LitI("haektpa"))) >> >>,
    <<"Nationality",
      << Pat(1, Cat(<<Grp(1, LitI("hellenic")), WB>>)),
         Pat(1, Cat(<<LitI("nationality"), ColSp, Grp(1, LitI("hellenic"))>>)) >> >>,
    <<"Gender",
      << Pat(1, Cat(<<Opt(Cat(<<LitI("sex"), ColSp>>)), Grp(1, MF),
                      Alt(<<Cat(<<S1, Rep(D, 2, 2), S1, Rep(W, 3, 3)>>),
                            Cat(<<S1, Rep(AZ, 4, -1)>>)>>)>>)),
         Pat(1, Cat(<<Grp(1, MF), S1, Rep(D, 2, 2), S1, Rep(W, 3, 3), S1, Rep(D, 2, 4)>>)),
         Pat(1, Cat(<<LitI("hellenic"), S1, Plus(AZ), S1, Grp(1, MF)>>)) >> >>,
    <<"Date of Birth",
      << Pat(1, Cat(<<Opt(Cat(<<LitI("date"), S0, LitI("of"), S0, LitI("birth"), ColSp>>)),
                      Grp(1, MonDate)>>)),
         Pat(2, Cat(<<Grp(1, MF), S1, Grp(2, MonDate)>>)) >> >>,
    <<"Place of Birth",
      << Pat(1, Cat(<<Opt(Cat(<<LitI("place"), S0, LitI("of"), S0, LitI("birth"), ColSp>>)),
                      Grp(1, Rep(AZ, 4, 20)),
                      Cat(<<S1, Rep(AZ, 1, 3), Rep(D, 6, 8)>>)>>)),
         Pat(1, Cat(<<Grp(1, Alt(<<LitI("komotini"), LitI("veroia"), LitI("giannitsa"),
                                   LitI("kozani"), LitI("thessaloniki"), LitI("athens"),
                                   LitI("sparta")>>)), WB>>)) >> >>,
    <<"Passport Number",
      << Pat(1, Cat(<<Opt(Cat(<<LitI("passport"), S0, LitI("no"), ColSp>>)),
                      Grp(1, Cat(<<Rep(AZ, 1, 3), Rep(D, 6, 8)>>)), WB>>)),
         Pat(1, Cat(<<Grp(1, Alt(<<Cat(<<LitI("vu"), Rep(D, 7, 7)>>),
                                   Cat(<<LitI("m"), Rep(D, 7, 7)>>),
                                   Cat(<<LitI("ee"), Rep(D, 7, 7)>>),
                                   Cat(<<LitI("jh"), Rep(D, 7, 7)>>)>>)), WB>>)) >> >>,
    <<"Issue Date",
      << Pat(1, Cat(<<Opt(Cat(<<LitI("iss"), Opt(Cls({"."})), S0, LitI("date"), ColSp>>)),
                      Grp(1, MonDate),
                      Ahead(Cat(<<Star(NotCls({"\n"})), LitI("expiry")>>))>>)),
         Pat(1, Cat(<<Grp(1, Cat(<<Rep(D, 1, 2), S1, LitI("sep"), S1, Rep(D, 2, 4)>>)),
                      Ahead(Cat(<<Star(NotCls({"\n"})),
                                  Rep(D, 1, 2), S1, LitI("sep"), S1, Rep(D, 2, 4)>>))>>)) >> >>,
    <<"Expiry Date",
      << Pat(1, Cat(<<Opt(Cat(<<LitI("expiry"), ColSp>>)), Grp(1, MonDate),
                      NotAhead(Cat(<<S0, LitI("iss")>>))>>)),
         Pat(1, Cat(<<Grp(1, Cat(<<Rep(D, 1, 2), S1, LitI("sep"), S1, Rep(D, 2, 4)>>)),
                      EOS>>)) >> >>,
    <<"Height",
      << Pat(1, Cat(<<Opt(Cat(<<LitI("height"), ColSp>>)),
                      Grp(1, Cat(<<Plus(D), Lit("."), Rep(D, 2, 2)>>)), WB>>)),
         Pat(1, Cat(<<Grp(1, Alt(<<Cat(<<Lit("1."), Rep(D, 2, 2)>>),
                                   Cat(<<Lit("2."), Rep(D, 2, 2)>>)>>)), WB>>)) >> >>,
    <<"Issuing Authority",
      << Pat(1, Cat(<<Opt(Cat(<<LitI("iss"), Opt(Cls({"."})), S0, LitI("office"), ColSp>>)),
                      Grp(1, Rep(ClsI(AuthChars), 8, 30))>>)),
         Pat(1, Grp(1, Cat(<<LitI("place"), S1, LitI("of"), S1, LitI("birth"),
                             Plus(NotAZ), Rep(ClsI(AuthChars), 8, 30)>>))) >> >> >>

\* for value in match: the first captured group that is non-empty and valid
\* the right-most group of a tuple match that passes
last_valid(field, match) ==
    The({IF ok = {} THEN "" ELSE match[CHOOSE k \in ok : \A j \in ok : k >= j]
         : ok \in {{k \in 1..Len(match) :
                      match[k] # "" /\ is_valid_field_value(field, match[k])}}})

\* for value in match: the first group that is not empty and passes
first_valid(field, match) ==
    The({IF ok = {} THEN "" ELSE match[CHOOSE k \in ok : \A j \in ok : k <= j]
         : ok \in {{k \in 1..Len(match) :
                      match[k] # "" /\ is_valid_field_value(field, match[k])}}})

\* for pattern in patterns (from the n-th on), for match in matches: the first
\* accepted value, upper-cased and stripped; "" when no pattern yields one
RECURSIVE field_value(_, _, _, _)
field_value(field, patterns, n, text) ==
    IF n > Len(patterns) THEN ""
    ELSE The({IF \A m \in 1..Len(values) : values[m] = ""
              THEN field_value(field, patterns, n + 1, text)
              ELSE strip(upper(values[CHOOSE m \in 1..Len(values) :
                                        /\ values[m] # ""
                                        /\ \A j \in 1..(m - 1) : values[j] = ""]))
              : values \in {The({[m \in 1..Len(matches) |-> first_valid(field, matches[m])]
                                 : matches \in {findall(patterns[n], text)}})}})

\* for field, patterns in table.items(): extracted[field] = ... when a value is accepted
extract_fields(table, text) ==
    The({SelectSeq([n \in 1..Len(table) |-> <<table[n][1], values[n]>>],
                   LAMBDA e : e[2] # "")
         : values \in {[n \in 1..Len(table) |->
                          field_value(table[n][1], table[n][2], 1, text)]}})

ultimate_spanish_dni_extraction(text) == extract_fields(spanish_patterns, text)
ultimate_greek_passport_extraction(text) == extract_fields(greek_patterns, text)

(***************************************************************************)
(* intelligent_validation_cleanup                                          *)
(***************************************************************************)
\* ([A-Z\.\s\-\/]{8,25}), without re.IGNORECASE
clean_part == Pat(1, Grp(1, Rep(Cls(AuthChars), 8, 25)))

revalidate(extracted) ==
    SelectSeq(extracted, LAMBDA e : is_valid_field_value(e[1], e[2]))

\* a duplicate rule that deletes the other key
drop_kept(cleaned, keep, drop) ==
    IF /\ Has(cleaned, keep) /\ Has(cleaned, drop)
       /\ Get(cleaned, keep) = Get(cleaned, drop)
    THEN Del(cleaned, keep) ELSE cleaned

\* if both keys are present with equal values, del cleaned[drop]
drop_duplicate(cleaned, keep, drop) ==
    IF /\ Has(cleaned, keep) /\ Has(cleaned, drop)
       /\ Get(cleaned, keep) = Get(cleaned, drop)
    THEN Del(cleaned, drop) ELSE cleaned
fix_duplicates(cleaned) ==
    drop_duplicate(drop_duplicate(cleaned, "First Surname", "Second Surname"),
                   "Surname", "Name")

normalize_nationality(cleaned) ==
    IF ~Has(cleaned, "Nationality") THEN cleaned
    ELSE The({IF Contains(nat, "hellenic") \/ Contains(nat, "greek")
              THEN Set(cleaned, "Nationality", "HELLENIC")
              ELSE IF Contains(nat, "esp") THEN Set(cleaned, "Nationality", "ESP")
              ELSE cleaned
              : nat \in {lower(Get(cleaned, "Nationality"))}})

\* a cleanup that keeps the clean part as matched, without strip()
clean_authority_unstripped(cleaned) ==
    IF ~Has(cleaned, "Issuing Authority") THEN cleaned
    ELSE The({
           IF Len(authority) <= 40 THEN cleaned
           ELSE The({
             IF clean_match # <<>>
             THEN Set(cleaned, "Issuing Authority",
                      SubSeq(authority, clean_match[3][1][1], clean_match[3][1][2] - 1))
             ELSE Set(cleaned, "Issuing Authority", SubSeq(authority, 1, 25) \o "...")
             : clean_match \in {search(clean_part, authority)}})
           : authority \in {Get(cleaned, "Issuing Authority")}})

\* a cleanup that cuts every long authority to 25 characters and the marker
clean_authority_truncating(cleaned) ==
    IF ~Has(cleaned, "Issuing Authority") THEN cleaned
    ELSE The({IF Len(authority) <= 40 THEN cleaned
              ELSE Set(cleaned, "Issuing Authority", SubSeq(authority, 1, 25) \o "...")
              : authority \in {Get(cleaned, "Issuing Authority")}})

clean_authority(cleaned) ==
    IF ~Has(cleaned, "Issuing Authority") THEN cleaned
    ELSE The({
           IF Len(authority) <= 40 THEN cleaned
           ELSE The({
             IF clean_match # <<>>
             THEN Set(cleaned, "Issuing Authority",
                      strip(SubSeq(authority, clean_match[3][1][1], clean_match[3][1][2] - 1)))
             ELSE Set(cleaned, "Issuing Authority", SubSeq(authority, 1, 25) \o "...")
             : clean_match \in {search(clean_part, authority)}})
           : authority \in {Get(cleaned, "Issuing Authority")}})

\* the four passes, each on the mapping the one before left
intelligent_validation_cleanup(extracted) ==
    The({The({The({clean_authority(normal)
                   : normal \in {normalize_nationality(fixed)}})
              : fixed \in {fix_duplicates(valid)}})
         : valid \in {revalidate(extracted)}})

(***************************************************************************)
(* ultimate_extract_document_fields, clean_and_format_document_fields      *)
(***************************************************************************)
extract_as(doc_type, preprocessed) ==
    IF doc_type = "spanish_dni" THEN ultimate_spanish_dni_extraction(preprocessed)
    ELSE ultimate_greek_passport_extraction(preprocessed)

ultimate_extract_document_fields(ocr_text) ==
    IF ocr_text = "" THEN <<>>
    ELSE The({The({intelligent_validation_cleanup(extracted)
                   : extracted \in {extract_as(intelligent_document_detection(preprocessed),
                                               preprocessed)}})
              : preprocessed \in {ultimate_preprocessing(ocr_text)}})

field_order(doc_type) ==
    IF doc_type = "spanish_dni"
    THEN <<"First Surname", "Second Surname", "Name", "DNI Number", "Gender",
           "Nationality", "Date of Birth", "ID Number", "Valid Until">>
    ELSE <<"Surname", "Name", "Nationality", "Gender", "Date of Birth",
           "Place of Birth", "Passport Number", "Issue Date", "Expiry Date",
           "Issuing Authority", "Height">>

\* [f"{field}:", value]
entry_of(field, value) == <<field \o ":", value>>

\* a formatter that appends every present field in insertion order only
format_insertion_order(extracted_data, order) ==
    The({[n \in 1..Len(rest) |-> entry_of(rest[n][1], rest[n][2])]
         : rest \in {SelectSeq(extracted_data, LAMBDA e : e[2] # "")}})

\* a formatter whose second loop lacks the test "field not in field_order"
format_unfiltered(extracted_data, order) ==
    The({[n \in 1..Len(in_order) |-> entry_of(in_order[n], Get(extracted_data, in_order[n]))]
         : in_order \in {SelectSeq(order, LAMBDA f :
                            Has(extracted_data, f) /\ Get(extracted_data, f) # "")}})
    \o The({[n \in 1..Len(rest) |-> entry_of(rest[n][1], rest[n][2])]
            : rest \in {SelectSeq(extracted_data, LAMBDA e : e[2] # "")}})

\* the two loops over field_order and over extracted_data.items()
format_fields(extracted_data, order) ==
    The({[n \in 1..Len(in_order) |-> entry_of(in_order[n], Get(extracted_data, in_order[n]))]
         : in_order \in {SelectSeq(order, LAMBDA f :
                            Has(extracted_data, f) /\ Get(extracted_data, f) # "")}})
    \o The({[n \in 1..Len(rest) |-> entry_of(rest[n][1], rest[n][2])]
            : rest \in {SelectSeq(extracted_data, LAMBDA e :
                           e[1] \notin Range(order) /\ e[2] # "")}})

MaxSample == 200

\* a fallback that never truncates
fallback_whole(formatted_fields, translated_text) ==
    IF formatted_fields # <<>> THEN formatted_fields
    ELSE << <<"Extracted Text:", translated_text>> >>

fallback(formatted_fields, translated_text) ==
    IF formatted_fields # <<>> THEN formatted_fields
    ELSE << <<"Extracted Text:",
              IF Len(translated_text) > MaxSample
              THEN SubSeq(translated_text, 1, MaxSample) \o "..." ELSE translated_text>> >>

\* a guard that lets the empty text through
nothing_to_format_but_empty(translated_text) == Contains(translated_text, "Translation")

\* line 518
nothing_to_format(translated_text) ==
    IF translated_text = "" THEN TRUE ELSE Contains(translated_text, "Translation")

clean_and_format_document_fields(translated_text) ==
    IF nothing_to_format(translated_text) THEN <<>>
    ELSE The({fallback(format_fields(extracted_data,
                                     field_order(intelligent_document_detection(translated_text))),
                       translated_text)
              : extracted_data \in {ultimate_extract_document_fields(translated_text)}})

(***************************************************************************)
(* DocumentForgeryDetector (src/DocAi/detection/forgery_detector.py):      *)
(* clean_text, extract_text_from_image, translate_text and                 *)
(* format_document_fields.  An image is a record: pil and cv say whether   *)
(* PIL and OpenCV can load the file, tesseract whether the OCR engine      *)
(* runs, text is what the engine reads.                                    *)
(***************************************************************************)
\* line 66: the characters outside [\x20-\x7E\n\r\t] and the Greek ranges; of
\* the alphabet these are the form feed and the non-ASCII stand-ins
Unprintable == {"\f"} \cup NonAscii
\* line 77: [A-Za-z0-9] (no Greek letter is in the alphabet)
Alnum == Range(LowerAlpha) \cup Range(UpperAlpha) \cup Digit

\* lines 72-78: the stripped lines of 3 characters or more that have a letter
\* or a digit
clean_lines(split_lines) ==
    SelectSeq([n \in 1..Len(split_lines) |-> strip(split_lines[n])],
              LAMBDA line_clean : /\ Len(line_clean) >= 3
                                  /\ search(Pat(0, Cls(Alnum)), line_clean) # <<>>)

\* lines 61-80; "\n" is the only line break of the alphabet, and the empty
\* pieces in which split and splitlines differ are dropped by line 75
clean_text(ocr) ==
    IF ocr = "" THEN "No text detected"
    ELSE The({IF cl = <<>> THEN "No meaningful text detected" ELSE join(cl)
              : cl \in {clean_lines(split(sub(Pat(0, Plus(Lit("<"))), " ",
                                              sub(Pat(0, Cls(Unprintable)), "", ocr))))}})

\* lines 82-98
extract_text_from_image(image) ==
    IF ~image.cv THEN "OCR Error: Cannot load image."
    ELSE IF ~image.tesseract THEN "OCR Error: tesseract is not installed"
    ELSE clean_text(image.text)

\* line 102
translation_skipped(ocr) ==
    ocr = "" \/ Contains(ocr, "OCR Error") \/ Contains(lower(ocr), "no text")

\* lines 139-159, in the order of the literal
field_mappings ==
    << <<"surname", "Surname">>, <<"name", "Name">>, <<"first name", "First Name">>,
       <<"apellido", "Surname">>, <<"nombre", "Name">>,
       <<"nationality", "Nationality">>, <<"nacionalidad", "Nationality">>,
       <<"sex", "Gender">>, <<"sexo", "Gender">>,
       <<"date of birth", "Date of Birth">>,
       <<"fecha de nacimiento", "Date of Birth">>,
       <<"place of birth", "Place of Birth">>, <<"date of issue", "Issue Date">>,
       <<"date of expiry", "Expiry Date">>, <<"valid until", "Valid Until">>,
       <<"valido hasta", "Valid Until">>, <<"passport no", "Passport Number">>,
       <<"id", "ID Number">>, <<"dni", "ID Number">> >>

\* lines 162-171, for one line: the part before the first colon names the
\* field by the first mapping it contains, the part after it is the value
format_line(line, fields) ==
    IF ~Contains(line, ":") THEN fields
    ELSE The({The({IF hits = {} THEN fields
                   ELSE Set(fields,
                            field_mappings[CHOOSE n \in hits : \A k \in hits : n <= k][2],
                            strip(SubSeq(line, colon + 1, Len(line))))
                   : hits \in {{n \in 1..Len(field_mappings) :
                                  Contains(lower(strip(SubSeq(line, 1, colon - 1))),
                                           field_mappings[n][1])}}})
              : colon \in {CHOOSE i \in 1..Len(line) :
                              /\ SubSeq(line, i, i) = ":"
                              /\ \A j \in 1..(i - 1) : SubSeq(line, j, j) # ":"}})

RECURSIVE format_lines(_, _)
format_lines(split_lines, fields) ==
    IF split_lines = <<>> THEN fields
    ELSE format_lines(Tail(split_lines), format_line(Head(split_lines), fields))

\* lines 130-173
format_document_fields(translated) ==
    IF translated = "" \/ Contains(translated, "Translation") THEN <<>>
    ELSE format_lines(split(translated), <<>>)

(***************************************************************************)
(* The exceptions the stages can raise: every subscription, del and group() *)
(* of lines 239-549 with the test that guards it                            *)
(***************************************************************************)
\* a name not bound yet: a string, or a mapping or sequence of pairs
None == "-"
Unbound == << <<"-", "-">> >>

\* d[f] and del d[f] raise KeyError when f is not a key of d
subscript(d, f) == IF Has(d, f) THEN None ELSE "KeyError"
\* a test "f in d" that is always true
contains_key_always(d, f) == TRUE
\* the test "f in d" of lines 334, 341, 343, 465, 469, 474, 483, 537
contains_key(d, f) == Has(d, f)
\* the first exception of statements in program order
first_raised(raises) ==
    IF \A n \in 1..Len(raises) : raises[n] = None THEN None
    ELSE raises[CHOOSE n \in 1..Len(raises) :
                    raises[n] # None /\ \A k \in 1..(n - 1) : raises[k] = None]
\* the keys of the mapping create_validation_sets returns
validation_sets ==
    <<<<"invalid_surnames", invalid_surnames>>, <<"invalid_names", invalid_names>>,
      <<"valid_spanish_names", {}>>, <<"valid_greek_names", {}>>,
      <<"valid_spanish_surnames", {}>>, <<"valid_greek_surnames", {}>>>>
\* lines 247-255: the subscriptions of validation_sets
validator_raises(field_name) ==
    IF field_name \in {"First Surname", "Second Surname", "Surname"}
    THEN subscript(validation_sets, "invalid_surnames")
    ELSE IF field_name = "Name" THEN subscript(validation_sets, "invalid_names")
    ELSE None
\* lines 326-343 and 407-423: every field of the table may reach the validator;
\* findall gives "" and never None for a group that took no part in the match
extraction_raises(table) ==
    first_raised([n \in 1..Len(table) |-> validator_raises(table[n][1])])
\* lines 464-470
duplicate_raises(cleaned, keep, drop) ==
    IF ~(contains_key(cleaned, keep) /\ contains_key(cleaned, drop)) THEN None
    ELSE IF subscript(cleaned, keep) # None THEN subscript(cleaned, keep)
    ELSE IF subscript(cleaned, drop) # None THEN subscript(cleaned, drop)
    ELSE IF Get(cleaned, keep) = Get(cleaned, drop) THEN subscript(cleaned, drop)
    ELSE None
\* lines 473-475
nationality_raises(cleaned) ==
    IF contains_key(cleaned, "Nationality") THEN subscript(cleaned, "Nationality")
    ELSE None
\* lines 482-490: group(1) is called under "if clean_match" only
authority_raises(cleaned) ==
    IF contains_key(cleaned, "Issuing Authority")
    THEN subscript(cleaned, "Issuing Authority")
    ELSE None
\* lines 456-492
cleanup_raises(extracted) ==
    The({IF validated # None THEN validated
         ELSE The({first_raised(<<
                     duplicate_raises(cleaned, "First Surname", "Second Surname"),
                     duplicate_raises(
                         drop_duplicate(cleaned, "First Surname", "Second Surname"),
                         "Surname", "Name"),
                     nationality_raises(fix_duplicates(cleaned)),
                     authority_raises(normalize_nationality(fix_duplicates(cleaned)))>>)
                   : cleaned \in {revalidate(extracted)}})
         : validated \in {first_raised([n \in 1..Len(extracted) |->
                                           validator_raises(extracted[n][1])])}})
\* lines 536-543: extracted_data[field] behind "field in extracted_data"
format_raises(extracted_data, order) ==
    first_raised([n \in 1..Len(order) |->
                     IF contains_key(extracted_data, order[n])
                     THEN subscript(extracted_data, order[n]) ELSE None])
\* the table of the extractor of a document type
patterns_of(doc_type) ==
    IF doc_type = "spanish_dni" THEN spanish_patterns ELSE greek_patterns

(***************************************************************************)
(* The program as state machines.  Spec runs one request through           *)
(* clean_and_format_document_fields (the report view, line 611) or through *)
(* ultimate_extract_document_fields alone (the download view, line 701),   *)
(* one statement group per step.  SpecClassify runs                        *)
(* intelligent_document_detection alone and SpecCleanup runs               *)
(* intelligent_validation_cleanup twice in a row, on the mapping the first *)
(* call returned.                                                          *)
(***************************************************************************)
VARIABLES
    entry,             \* the function the request calls: "format" or "extract"
    pc,                \* the control point of the request
    translated_text,   \* the input
    preprocessed,      \* ultimate_extract_document_fields: preprocessed
    doc_type,          \* ultimate_extract_document_fields: doc_type
    extracted,         \* ultimate_extract_document_fields: extracted, before the cleanup
    extracted_data,    \* the mapping ultimate_extract_document_fields returns
    fmt_doc_type,      \* clean_and_format_document_fields: doc_type
    formatted_fields,  \* the sequence clean_and_format_document_fields returns
    raised,            \* the exception that left the request, if any
    text,              \* intelligent_document_detection: text
    text_lower,        \* intelligent_document_detection: text_lower
    spanish_score,     \* intelligent_document_detection: spanish_score
    greek_score,       \* intelligent_document_detection: greek_score
    detected,          \* what intelligent_document_detection returns
    dpc,               \* the control point of the classifier
    m,                 \* the mapping given to the first cleanup call
    call,              \* the cleanup call in progress: 1 or 2
    cleaned,           \* intelligent_validation_cleanup: cleaned
    revalidated,       \* cleaned as the first call's first loop left it
    once,              \* what the first call returned
    twice,             \* what the second call returned
    cpc,               \* the control point of the cleanup
    argument,          \* per invocation: the text it was called with
    ipc,               \* per invocation: its control point
    locals,            \* per frame: raw_ocr_text, unique_lines, preprocessed, extracted
    result,            \* per invocation: the mapping and the sequence it returned
    leftover,          \* per frame: what earlier calls left where unique_lines will live
    raw_ocr_text,      \* ultimate_preprocessing alone: its argument
    normalized,        \* what it returned
    renormalized,      \* what it returned for normalized
    npc,               \* the control point of the two calls
    field_name,        \* is_valid_field_value alone: its arguments
    value,
    verdict,           \* what it returned, in a tuple; the empty tuple before the call
    walk_lines,        \* the line walk alone: lines, as text.split gave them
    walked,            \* the number of lines the loop has taken
    seen,              \* unique_lines (and seen) now
    seen_before,       \* unique_lines before the last line was taken
    upload,            \* per request of upload_view: its inputs, locals and response
    detector,          \* forgery_detector.detector: 0 for None, else the instance
    constructed,       \* the number of times DocumentForgeryDetector() was called
    history,           \* the requests that have a DetectionHistory row
    tempdir,           \* the temporary files that exist, by the request that made them
    weights            \* whether ml_models/best_multiclass.pt exists

request == <<entry, pc, translated_text, preprocessed, doc_type, extracted,
             extracted_data, fmt_doc_type, formatted_fields, raised>>
classifier == <<text, text_lower, spanish_score, greek_score, detected, dpc>>
resolver == <<m, call, cleaned, revalidated, once, twice, cpc>>
server == <<argument, ipc, locals, result, leftover>>
normalizer == <<raw_ocr_text, normalized, renormalized, npc>>
validator == <<field_name, value, verdict>>
walker == <<walk_lines, walked, seen, seen_before>>
uploader == <<upload, detector, constructed, history, tempdir, weights>>
others == <<validator, walker, uploader>>
vars == <<request, classifier, resolver, server, normalizer, others>>

RequestIdle ==
    /\ entry = None /\ pc = None /\ translated_text = None
    /\ preprocessed = None /\ doc_type = None /\ extracted = Unbound
    /\ extracted_data = Unbound /\ fmt_doc_type = None /\ formatted_fields = Unbound
    /\ raised = None
ClassifierIdle ==
    /\ text = None /\ text_lower = None /\ spanish_score = 0 /\ greek_score = 0
    /\ detected = None /\ dpc = None
ResolverIdle ==
    /\ m = Unbound /\ call = 0 /\ cleaned = Unbound /\ revalidated = Unbound
    /\ once = Unbound /\ twice = Unbound /\ cpc = None
ServerIdle ==
    /\ argument = <<>> /\ ipc = <<>> /\ locals = <<>> /\ result = <<>>
    /\ leftover = <<>>
NormalizerIdle ==
    /\ raw_ocr_text = None /\ normalized = None /\ renormalized = None /\ npc = None
ValidatorIdle ==
    /\ field_name = None /\ value = None /\ verdict = <<>>
WalkerIdle ==
    /\ walk_lines = <<>> /\ walked = 0 /\ seen = <<>> /\ seen_before = <<>>
UploaderIdle ==
    /\ upload = <<>> /\ detector = 0 /\ constructed = 0 /\ history = {}
    /\ tempdir = {} /\ weights = FALSE
OthersIdle ==
    /\ ValidatorIdle /\ WalkerIdle /\ UploaderIdle

\* input texts: up to MaxWords words of Vocab separated by blanks, and runs of
\* MaxSample - 1 .. MaxSample + MaxOver filler characters
MaxWords == 2
MaxOver == 1
Vocab == <<"Passport", "dni12345678z", "Nacionalidad", "HELLENIC", "papadoulis",
           "1.75", "DNI:", "Translation">>
RECURSIVE Sentence(_, _)
Sentence(words, ws) ==
    IF ws = <<>> THEN ""
    ELSE IF Len(ws) = 1 THEN words[ws[1]]
    ELSE words[ws[1]] \o " " \o Sentence(words, Tail(ws))
Sentences(words, n) ==
    UNION {{Sentence(words, ws) : ws \in [1..k -> 1..Len(words)]} : k \in 0..n}
Filler(n) == Str([i \in 1..n |-> "#"])
\* whole documents: an authority longer than 40 characters behind a label that
\* is not at a word boundary, labels around another label, a misspelt label,
\* a text in another script, a text of two lines, tuple matches with a rejected
\* and with two accepted groups, a rejected match before accepted ones, a
\* gender letter behind its label in either language
Specimens ==
    {"sex m papadoulis",
     "sexo m esp 01",
     "mesp01 garcia lopez",
     "x.xxxxxxx1papadoulis 1.75 1.80",
     "a.xplace of birth athensxyz national centre offi-",
     "primer sex apellido garcia",
     "valido hasta 01 01 2030",
     "nationality $$$$$$$$",
     "surname papadoulis\nheight 1.75"}
Texts ==
    Sentences(Vocab, MaxWords)
    \cup {Filler(n) : n \in (MaxSample - 1)..(MaxSample + MaxOver)}
    \cup Specimens

Init ==
    /\ entry \in {"format", "extract"}
    /\ translated_text \in Texts
    /\ pc = "start"
    /\ preprocessed = None /\ doc_type = None /\ extracted = Unbound
    /\ extracted_data = Unbound /\ fmt_doc_type = None /\ formatted_fields = Unbound
    /\ raised = None
    /\ ClassifierIdle /\ ResolverIdle /\ ServerIdle /\ NormalizerIdle /\ OthersIdle

\* lines 518-519: nothing to format
FormatGuard ==
    /\ pc = "start" /\ entry = "format"
    /\ IF nothing_to_format(translated_text)
       THEN formatted_fields' = <<>> /\ pc' = "done"
       ELSE formatted_fields' = formatted_fields /\ pc' = "extract_call"
    /\ UNCHANGED <<entry, raised, translated_text, preprocessed, doc_type, extracted,
                   extracted_data, fmt_doc_type, classifier, resolver, server, normalizer, others>>

\* lines 496-497: ultimate_extract_document_fields is entered, from the request
\* or from line 521
ExtractGuard ==
    /\ pc = IF entry = "extract" THEN "start" ELSE "extract_call"
    /\ IF translated_text = ""
       THEN extracted_data' = <<>> /\ pc' = "return"
       ELSE extracted_data' = extracted_data /\ pc' = "preprocess"
    /\ UNCHANGED <<entry, raised, translated_text, preprocessed, doc_type, extracted,
                   fmt_doc_type, formatted_fields, classifier, resolver, server, normalizer, others>>

\* line 500
Preprocess ==
    /\ pc = "preprocess"
    /\ preprocessed' = ultimate_preprocessing(translated_text)
    /\ pc' = "detect"
    /\ UNCHANGED <<entry, raised, translated_text, doc_type, extracted, extracted_data,
                   fmt_doc_type, formatted_fields, classifier, resolver, server, normalizer, others>>

\* line 503
Detect ==
    /\ pc = "detect"
    /\ doc_type' = intelligent_document_detection(preprocessed)
    /\ pc' = "extract"
    /\ UNCHANGED <<entry, raised, translated_text, preprocessed, extracted, extracted_data,
                   fmt_doc_type, formatted_fields, classifier, resolver, server, normalizer, others>>

\* lines 506-509
Extract ==
    /\ pc = "extract"
    /\ raised' = extraction_raises(patterns_of(doc_type))
    /\ IF raised' = None
       THEN extracted' = extract_as(doc_type, preprocessed) /\ pc' = "cleanup"
       ELSE extracted' = extracted /\ pc' = "raised"
    /\ UNCHANGED <<entry, translated_text, preprocessed, doc_type, extracted_data,
                   fmt_doc_type, formatted_fields, classifier, resolver, server, normalizer, others>>

\* lines 512-514
Cleanup ==
    /\ pc = "cleanup"
    /\ raised' = cleanup_raises(extracted)
    /\ IF raised' = None
       THEN extracted_data' = intelligent_validation_cleanup(extracted) /\ pc' = "return"
       ELSE extracted_data' = extracted_data /\ pc' = "raised"
    /\ UNCHANGED <<entry, translated_text, preprocessed, doc_type, extracted,
                   fmt_doc_type, formatted_fields, classifier, resolver, server, normalizer, others>>

\* ultimate_extract_document_fields returns, to the request or to line 521
Return ==
    /\ pc = "return"
    /\ pc' = IF entry = "extract" THEN "done" ELSE "redetect"
    /\ UNCHANGED <<entry, raised, translated_text, preprocessed, doc_type, extracted,
                   extracted_data, fmt_doc_type, formatted_fields, classifier, resolver, server, normalizer, others>>

\* line 524
Redetect ==
    /\ pc = "redetect"
    /\ fmt_doc_type' = intelligent_document_detection(translated_text)
    /\ pc' = "format"
    /\ UNCHANGED <<entry, raised, translated_text, preprocessed, doc_type, extracted,
                   extracted_data, formatted_fields, classifier, resolver, server, normalizer, others>>

\* lines 526-549
Format ==
    /\ pc = "format"
    /\ raised' = format_raises(extracted_data, field_order(fmt_doc_type))
    /\ IF raised' = None
       THEN /\ formatted_fields' =
                   fallback(format_fields(extracted_data, field_order(fmt_doc_type)),
                            translated_text)
            /\ pc' = "done"
       ELSE formatted_fields' = formatted_fields /\ pc' = "raised"
    /\ UNCHANGED <<entry, translated_text, preprocessed, doc_type, extracted,
                   extracted_data, fmt_doc_type, classifier, resolver, server, normalizer, others>>

Next ==
    \/ FormatGuard
    \/ ExtractGuard
    \/ Preprocess
    \/ Detect
    \/ Extract
    \/ Cleanup
    \/ Return
    \/ Redetect
    \/ Format

Spec == Init /\ [][Next]_vars

(***************************************************************************)
(* intelligent_document_detection, statement by statement                  *)
(***************************************************************************)
\* classifier inputs: up to MaxKeys of these tokens separated by blanks
MaxKeys == 3
Tokens == <<"espa~a", "DNI", "nacionalidad", "hellas", "Passport", "nationality",
            "12345678Z", "AB123456">>

InitClassify ==
    /\ text \in Sentences(Tokens, MaxKeys)
    /\ text_lower = None /\ spanish_score = 0 /\ greek_score = 0
    /\ detected = None /\ dpc = "lower"
    /\ RequestIdle /\ ResolverIdle /\ ServerIdle /\ NormalizerIdle /\ OthersIdle

\* lines 429-432
Lower ==
    /\ dpc = "lower"
    /\ text_lower' = lower(text)
    /\ spanish_score' = 0 /\ greek_score' = 0
    /\ dpc' = "spanish"
    /\ UNCHANGED <<text, detected, request, resolver, server, normalizer, others>>

\* lines 435-438
SpanishKeywords ==
    /\ dpc = "spanish"
    /\ spanish_score' = spanish_score + keyword_score(spanish_keywords, text_lower)
    /\ dpc' = "greek"
    /\ UNCHANGED <<text, text_lower, greek_score, detected, request, resolver, server, normalizer, others>>

\* lines 441-444
GreekKeywords ==
    /\ dpc = "greek"
    /\ greek_score' = greek_score + keyword_score(greek_keywords, text_lower)
    /\ dpc' = "shapes"
    /\ UNCHANGED <<text, text_lower, spanish_score, detected, request, resolver, server, normalizer, others>>

\* lines 447-450
Shapes ==
    /\ dpc = "shapes"
    /\ spanish_score' = spanish_score + shape_score(dni_shape, text_lower)
    /\ greek_score' = greek_score + shape_score(passport_shape, text_lower)
    /\ dpc' = "decide"
    /\ UNCHANGED <<text, text_lower, detected, request, resolver, server, normalizer, others>>

\* line 452
Decide ==
    /\ dpc = "decide"
    /\ detected' = decide(spanish_score, greek_score)
    /\ dpc' = "done"
    /\ UNCHANGED <<text, text_lower, spanish_score, greek_score, request, resolver, server, normalizer, others>>

NextClassify ==
    \/ Lower
    \/ SpanishKeywords
    \/ GreekKeywords
    \/ Shapes
    \/ Decide

SpecClassify == InitClassify /\ [][NextClassify]_vars

(***************************************************************************)
(* intelligent_validation_cleanup, statement by statement, called twice    *)
(***************************************************************************)
\* cleanup inputs: mappings of up to MaxFields of these entries, with distinct
\* keys, in any insertion order
MaxFields == 3
Letters(n) == Str([i \in 1..n |-> "a"])
Samples ==
    << <<"First Surname", "GARCIA">>,
       <<"Second Surname", "GARCIA">>,
       <<"Second Surname", "LOPEZ">>,
       <<"Name", "GARCIA">>,
       <<"Name", "AB">>,
       <<"Surname", "GARCIA">>,
       <<"Surname", "AB">>,
       <<"Nationality", "Hellenic Republic">>,
       <<"Nationality", "GREEK">>,
       <<"Nationality", "ESPA~A">>,
       <<"Issuing Authority", Letters(41)>>,
       <<"Issuing Authority", "HELLENIC POLICE ATHENS">>,
       <<"Issuing Authority", "NATIONAL PASSPORT CENTRE OF THE HELLENIC REPUBLIC">> >>
Mappings ==
    UNION {{[n \in 1..k |-> Samples[ix[n]]] :
               ix \in {jx \in [1..k -> 1..Len(Samples)] :
                         \A a, b \in 1..k : a # b => Samples[jx[a]][1] # Samples[jx[b]][1]}}
           : k \in 0..MaxFields}

InitCleanup ==
    /\ m \in Mappings
    /\ call = 1 /\ cleaned = Unbound /\ revalidated = Unbound
    /\ once = Unbound /\ twice = Unbound /\ cpc = "revalidate"
    /\ RequestIdle /\ ClassifierIdle /\ ServerIdle /\ NormalizerIdle /\ OthersIdle

\* lines 459-462, on the argument of the call in progress
Revalidate ==
    /\ cpc = "revalidate"
    /\ cleaned' = revalidate(IF call = 1 THEN m ELSE once)
    /\ revalidated' = IF call = 1 THEN cleaned' ELSE revalidated
    /\ cpc' = "surnames"
    /\ UNCHANGED <<m, call, once, twice, request, classifier, server, normalizer, others>>

\* lines 465-467
FixSurnames ==
    /\ cpc = "surnames"
    /\ cleaned' = drop_duplicate(cleaned, "First Surname", "Second Surname")
    /\ cpc' = "name"
    /\ UNCHANGED <<m, call, revalidated, once, twice, request, classifier, server, normalizer, others>>

\* lines 469-471
FixName ==
    /\ cpc = "name"
    /\ cleaned' = drop_duplicate(cleaned, "Surname", "Name")
    /\ cpc' = "nationality"
    /\ UNCHANGED <<m, call, revalidated, once, twice, request, classifier, server, normalizer, others>>

\* lines 474-479
NormalizeNationality ==
    /\ cpc = "nationality"
    /\ cleaned' = normalize_nationality(cleaned)
    /\ cpc' = "authority"
    /\ UNCHANGED <<m, call, revalidated, once, twice, request, classifier, server, normalizer, others>>

\* lines 482-490
CleanAuthority ==
    /\ cpc = "authority"
    /\ cleaned' = clean_authority(cleaned)
    /\ cpc' = "return"
    /\ UNCHANGED <<m, call, revalidated, once, twice, request, classifier, server, normalizer, others>>

\* line 492, and the second call on what the first returned
CleanupReturn ==
    /\ cpc = "return"
    /\ IF call = 1
       THEN once' = cleaned /\ twice' = twice /\ call' = 2 /\ cpc' = "revalidate"
       ELSE once' = once /\ twice' = cleaned /\ call' = call /\ cpc' = "done"
    /\ UNCHANGED <<m, cleaned, revalidated, request, classifier, server, normalizer, others>>

NextCleanup ==
    \/ Revalidate
    \/ FixSurnames
    \/ FixName
    \/ NormalizeNationality
    \/ CleanAuthority
    \/ CleanupReturn

SpecCleanup == InitCleanup /\ [][NextCleanup]_vars

(***************************************************************************)
(* Several invocations of clean_and_format_document_fields in one process, *)
(* interleaved statement group by statement group.  Every call has a frame *)
(* of its own for its locals; the memory of a frame holds what earlier     *)
(* calls left there until the call assigns its names.                      *)
(***************************************************************************)
MaxThreads == 2
ServerTexts == {"m 1.75", "ab123456 m\nm 1.75"}
\* the first frame is new memory, the others hold the lines of an earlier call
Leftovers == [f \in 1..MaxThreads |-> IF f = 1 THEN <<>> ELSE <<"hellenic papadoulis">>]

\* one frame for all invocations
shared_frame(f) == 1
\* the frame of invocation f
frame_of(f) == f

InitServer ==
    /\ argument \in [1..MaxThreads -> ServerTexts]
    /\ leftover = Leftovers
    /\ ipc = [f \in 1..MaxThreads |-> "start"]
    /\ locals = [f \in 1..MaxThreads |->
                    [raw_ocr_text |-> None, unique_lines |-> <<>>,
                     preprocessed |-> None, extracted |-> Unbound]]
    /\ result = [f \in 1..MaxThreads |-> <<Unbound, Unbound>>]
    /\ RequestIdle /\ ClassifierIdle /\ ResolverIdle /\ NormalizerIdle /\ OthersIdle

\* lines 518-521, 496-500, 131-139: the guards, and the names of the frame assigned
Invoke(f) ==
    /\ ipc[f] = "start"
    /\ IF nothing_to_format(argument[f])
       THEN /\ result' = [result EXCEPT ![f] = <<Unbound, <<>>>>]
            /\ ipc' = [ipc EXCEPT ![f] = "done"]
            /\ UNCHANGED locals
       ELSE /\ locals' = [locals EXCEPT ![frame_of(f)] =
                            [raw_ocr_text |-> argument[f],
                             unique_lines |-> new_list(leftover[frame_of(f)]),
                             preprocessed |-> None, extracted |-> Unbound]]
            /\ ipc' = [ipc EXCEPT ![f] = "dedupe"]
            /\ UNCHANGED result
    /\ UNCHANGED <<argument, leftover, request, classifier, resolver, normalizer, others>>

\* lines 134-147: the line walk appends to unique_lines
Dedupe(f) ==
    /\ ipc[f] = "dedupe"
    /\ locals' = [locals EXCEPT ![frame_of(f)].unique_lines =
                     unique_lines(split(lower(locals[frame_of(f)].raw_ocr_text)),
                                  locals[frame_of(f)].unique_lines)]
    /\ ipc' = [ipc EXCEPT ![f] = "substitute"]
    /\ UNCHANGED <<argument, leftover, result, request, classifier, resolver, normalizer, others>>

\* lines 148-204
Substitute(f) ==
    /\ ipc[f] = "substitute"
    /\ locals' = [locals EXCEPT ![frame_of(f)].preprocessed =
                     normalize_lines(locals[frame_of(f)].unique_lines)]
    /\ ipc' = [ipc EXCEPT ![f] = "extract"]
    /\ UNCHANGED <<argument, leftover, result, request, classifier, resolver, normalizer, others>>

\* lines 503-509
ExtractFields(f) ==
    /\ ipc[f] = "extract"
    /\ locals' = [locals EXCEPT ![frame_of(f)].extracted =
                     extract_as(intelligent_document_detection(
                                    locals[frame_of(f)].preprocessed),
                                locals[frame_of(f)].preprocessed)]
    /\ ipc' = [ipc EXCEPT ![f] = "return"]
    /\ UNCHANGED <<argument, leftover, result, request, classifier, resolver, normalizer, others>>

\* lines 512-514 and 521-549
Finish(f) ==
    /\ ipc[f] = "return"
    /\ result' = [result EXCEPT ![f] =
         The({<<data,
                fallback(format_fields(data, field_order(intelligent_document_detection(
                                                 locals[frame_of(f)].raw_ocr_text))),
                         locals[frame_of(f)].raw_ocr_text)>>
              : data \in {intelligent_validation_cleanup(locals[frame_of(f)].extracted)}})]
    /\ ipc' = [ipc EXCEPT ![f] = "done"]
    /\ UNCHANGED <<argument, leftover, locals, request, classifier, resolver, normalizer, others>>

NextServer ==
    \E f \in 1..MaxThreads :
        \/ Invoke(f)
        \/ Dedupe(f)
        \/ Substitute(f)
        \/ ExtractFields(f)
        \/ Finish(f)

SpecServer == InitServer /\ [][NextServer]_vars

(***************************************************************************)
(* ultimate_preprocessing alone, called on a text and then on its own      *)
(* output                                                                  *)
(***************************************************************************)
\* inputs: up to MaxLabels of these words separated by blanks, and two longer texts
MaxLabels == 2
LabelWords == <<"primer", "apellido", "sex", "valido hasta", "Name", "garcia\ngarcia">>
NormalizerTexts ==
    Sentences(LabelWords, MaxLabels)
    \cup {"primer sex apellido garcia", "valido hasta 01 01 2030"}

InitNormalize ==
    /\ raw_ocr_text \in NormalizerTexts
    /\ normalized = None /\ renormalized = None /\ npc = "start"
    /\ RequestIdle /\ ClassifierIdle /\ ResolverIdle /\ ServerIdle /\ OthersIdle

Normalize ==
    /\ npc = "start"
    /\ normalized' = ultimate_preprocessing(raw_ocr_text)
    /\ npc' = "once"
    /\ UNCHANGED <<raw_ocr_text, renormalized, request, classifier, resolver, server, others>>

Renormalize ==
    /\ npc = "once"
    /\ renormalized' = ultimate_preprocessing(normalized)
    /\ npc' = "twice"
    /\ UNCHANGED <<raw_ocr_text, normalized, request, classifier, resolver, server, others>>

NextNormalize ==
    \/ Normalize
    \/ Renormalize

SpecNormalize == InitNormalize /\ [][NextNormalize]_vars

(***************************************************************************)
(* is_valid_field_value alone                                              *)
(***************************************************************************)
\* the field names of the two pattern tables
FieldNames ==
    Range(Keys(spanish_patterns)) \cup Range(Keys(greek_patterns))
\* values: runs of 0 .. 25 + MaxExtra letters, the same between blanks, tokens
\* of the validation sets, and values with capitals, digits and punctuation
MaxExtra == 1
Values ==
    {Letters(n) : n \in 0..(25 + MaxExtra)}
    \cup {" " \o Letters(n) \o " " : n \in {1, 2, 3, 20, 21, 24, 25, 25 + MaxExtra}}
    \cup {"esp", "ESP", " esp ", "surname", "Apellido", "passport", "height",
          "m", "F", "male", "Male", " FEMALE ", "mf", "females",
          "12345678Z", "AB123456", "01 01 2030", "12 sep 2030", "1.75",
          "A.E.A. ATHENS", "N.P.C.-ATHENS/GR", "HELLENIC", "GARCIA"}

InitValidate ==
    /\ field_name \in FieldNames
    /\ value \in Values
    /\ verdict = <<>>
    /\ RequestIdle /\ ClassifierIdle /\ ResolverIdle /\ ServerIdle /\ NormalizerIdle
    /\ WalkerIdle /\ UploaderIdle

\* lines 239-274
Validate ==
    /\ verdict = <<>>
    /\ verdict' = <<is_valid_field_value(field_name, value)>>
    /\ UNCHANGED <<field_name, value, request, classifier, resolver, server, normalizer,
                   walker, uploader>>

SpecValidate == InitValidate /\ [][Validate]_vars

(***************************************************************************)
(* The line walk of ultimate_preprocessing alone, line by line             *)
(***************************************************************************)
\* inputs: 1 .. MaxLines lines out of LineSet, lower-case as line 134 left them
MaxLines == 3
LineSet == {"", "a", "xyz", "abcde", " abcde ", "abcdef", "abcdefg"}

InitWalk ==
    /\ walk_lines \in UNION {[1..k -> LineSet] : k \in 1..MaxLines}
    /\ walked = 0
    /\ seen = new_list(<<>>) /\ seen_before = <<>>
    /\ RequestIdle /\ ClassifierIdle /\ ResolverIdle /\ ServerIdle /\ NormalizerIdle
    /\ ValidatorIdle /\ UploaderIdle

\* lines 140-147, for one line
WalkLine ==
    /\ walked < Len(walk_lines)
    /\ seen_before' = seen
    /\ seen' = unique_lines(<<walk_lines[walked + 1]>>, seen)
    /\ walked' = walked + 1
    /\ UNCHANGED <<walk_lines, request, classifier, resolver, server, normalizer,
                   validator, uploader>>

SpecWalk == InitWalk /\ [][WalkLine]_vars

(***************************************************************************)
(* upload_view (views.py 22-78) with get_detector and generate_report      *)
(* (forgery_detector.py 250-284), one thread per request, and the two      *)
(* reports made from a stored detection                                    *)
(***************************************************************************)
MaxRequests == 2
\* what the OCR engine reads
RawTexts == {"", "\f-----\nab", "surname: garcia", "p<<grc\nid: ab1"}
Images ==
    {[pil |-> TRUE, cv |-> TRUE, tesseract |-> TRUE, text |-> t] : t \in RawTexts}
    \cup {[pil |-> FALSE, cv |-> FALSE, tesseract |-> TRUE, text |-> ""],
          [pil |-> TRUE, cv |-> FALSE, tesseract |-> TRUE, text |-> ""],
          [pil |-> TRUE, cv |-> TRUE, tesseract |-> FALSE, text |-> ""]}
\* the requests: a page load, a file of another type, and the images
Uploads ==
    {[method |-> "GET", name |-> "", image |-> [pil |-> FALSE, cv |-> FALSE,
                                                tesseract |-> TRUE, text |-> ""]],
     [method |-> "POST", name |-> "Scan.PDF", image |-> [pil |-> FALSE, cv |-> FALSE,
                                                       tesseract |-> TRUE, text |-> ""]]}
    \cup {[method |-> "POST", name |-> "Scan.PNG", image |-> i] : i \in Images}
\* the requests that run beside the first one
Rivals == {u \in Uploads : u.image.tesseract /\ u.image.text = "surname: garcia"}
\* what the translation service can answer for a text: an English text as it is
Translations(ocr) == {ocr}

\* line 24 and the locals of the two functions before their first assignment
frame(u) ==
    [method |-> u.method, name |-> u.name, image |-> u.image, upc |-> "start",
     tmp_file_path |-> 0, built |-> 0, detector |-> 0,
     report_type |-> "NoneType", report_status |-> None,
     extracted_text |-> None, translated_text |-> None, translator_calls |-> 0,
     response |-> None, formatted_fields |-> Unbound, pdf_fields |-> Unbound]

\* line 32
allowed_extensions == <<".jpg", ".jpeg", ".png", ".bmp", ".tiff">>
endswith(str, suffix) ==
    Len(str) >= Len(suffix) /\ SubSeq(str, Len(str) - Len(suffix) + 1, Len(str)) = suffix
allowed(name) ==
    \E n \in 1..Len(allowed_extensions) : endswith(lower(name), allowed_extensions[n])

InitUpload ==
    /\ upload \in {f \in [1..MaxRequests -> {frame(u) : u \in Uploads}] :
                      \A r \in 2..MaxRequests : \E u \in Rivals : f[r] = frame(u)}
    /\ detector = 0 /\ constructed = 0 /\ history = {} /\ tempdir = {}
    /\ weights \in BOOLEAN
    /\ RequestIdle /\ ClassifierIdle /\ ResolverIdle /\ ServerIdle /\ NormalizerIdle
    /\ ValidatorIdle /\ WalkerIdle

\* lines 26-37 and 78
Receive(r) ==
    /\ upload[r].upc = "start"
    /\ upload' = [upload EXCEPT ![r] =
          IF upload[r].method # "POST" THEN [@ EXCEPT !.response = "page", !.upc = "done"]
          ELSE IF ~allowed(upload[r].name)
               THEN [@ EXCEPT !.response = "Invalid file type", !.upc = "done"]
          ELSE [@ EXCEPT !.upc = "save"]]
    /\ UNCHANGED <<detector, constructed, history, tempdir, weights>>
    /\ UNCHANGED <<request, classifier, resolver, server, normalizer, validator, walker>>

\* lines 41-45
Save(r) ==
    /\ upload[r].upc = "save"
    /\ tempdir' = tempdir \cup {r}
    /\ upload' = [upload EXCEPT ![r].tmp_file_path = r, ![r].upc = "get_detector"]
    /\ UNCHANGED <<detector, constructed, history, weights>>
    /\ UNCHANGED <<request, classifier, resolver, server, normalizer, validator, walker>>

\* forgery_detector.py line 282
Check(r) ==
    /\ upload[r].upc = "get_detector"
    /\ upload' = [upload EXCEPT ![r].upc = IF detector = 0 THEN "construct" ELSE "return"]
    /\ UNCHANGED <<detector, constructed, history, tempdir, weights>>
    /\ UNCHANGED <<request, classifier, resolver, server, normalizer, validator, walker>>

\* forgery_detector.py line 283, the call: __init__ (25-29) and _load_model
\* (48-59), which raises FileNotFoundError without the weights
Construct(r) ==
    /\ upload[r].upc = "construct"
    /\ constructed' = constructed + 1
    /\ upload' = [upload EXCEPT ![r] =
          IF weights THEN [@ EXCEPT !.built = constructed + 1, !.upc = "assign"]
          ELSE [@ EXCEPT !.upc = "except"]]
    /\ UNCHANGED <<detector, history, tempdir, weights>>
    /\ UNCHANGED <<request, classifier, resolver, server, normalizer, validator, walker>>

\* forgery_detector.py line 283, the assignment to the global
Assign(r) ==
    /\ upload[r].upc = "assign"
    /\ detector' = upload[r].built
    /\ upload' = [upload EXCEPT ![r].upc = "return"]
    /\ UNCHANGED <<constructed, history, tempdir, weights>>
    /\ UNCHANGED <<request, classifier, resolver, server, normalizer, validator, walker>>

\* forgery_detector.py line 284 and views.py line 47
ReturnDetector(r) ==
    /\ upload[r].upc = "return"
    /\ upload' = [upload EXCEPT ![r].detector = detector, ![r].upc = "predict"]
    /\ UNCHANGED <<detector, constructed, history, tempdir, weights>>
    /\ UNCHANGED <<request, classifier, resolver, server, normalizer, validator, walker>>

\* generate_report, lines 254 and 257-258: predict_image opens the file with
\* PIL (line 116)
Predict(r) ==
    /\ upload[r].upc = "predict"
    /\ upload' = [upload EXCEPT ![r] =
          IF upload[r].image.pil THEN [@ EXCEPT !.upc = "ocr"]
          ELSE [@ EXCEPT !.report_type = "str", !.upc = "unlink"]]
    /\ UNCHANGED <<detector, constructed, history, tempdir, weights>>
    /\ UNCHANGED <<request, classifier, resolver, server, normalizer, validator, walker>>

\* generate_report, line 255
Ocr(r) ==
    /\ upload[r].upc = "ocr"
    /\ upload' = [upload EXCEPT
          ![r].extracted_text = extract_text_from_image(upload[r].image),
          ![r].upc = "translate"]
    /\ UNCHANGED <<detector, constructed, history, tempdir, weights>>
    /\ UNCHANGED <<request, classifier, resolver, server, normalizer, validator, walker>>

\* generate_report, lines 256 and 260-275, with translate_text (100-106): the
\* service answers or fails
Translate(r) ==
    /\ upload[r].upc = "translate"
    /\ \E answer \in IF translation_skipped(upload[r].extracted_text)
                      THEN {"Translation skipped (no valid text)."}
                      ELSE Translations(upload[r].extracted_text)
                           \cup {"Translation failed: timed out"} :
          upload' = [upload EXCEPT
             ![r].translator_calls =
                 IF translation_skipped(upload[r].extracted_text) THEN @ ELSE @ + 1,
             ![r].translated_text = answer,
             ![r].report_type = "dict", ![r].report_status = "success",
             ![r].upc = "unlink"]
    /\ UNCHANGED <<detector, constructed, history, tempdir, weights>>
    /\ UNCHANGED <<request, classifier, resolver, server, normalizer, validator, walker>>

\* line 50
Unlink(r) ==
    /\ upload[r].upc = "unlink"
    /\ tempdir' = tempdir \ {upload[r].tmp_file_path}
    /\ upload' = [upload EXCEPT ![r].upc = "status"]
    /\ UNCHANGED <<detector, constructed, history, weights>>
    /\ UNCHANGED <<request, classifier, resolver, server, normalizer, validator, walker>>

\* lines 52-73 and 78: a str has no get and raises AttributeError
Status(r) ==
    /\ upload[r].upc = "status"
    /\ history' = IF upload[r].report_type = "dict" /\ upload[r].report_status = "success"
                  THEN history \cup {r} ELSE history
    /\ upload' = [upload EXCEPT ![r] =
          IF upload[r].report_type # "dict" THEN [@ EXCEPT !.upc = "except"]
          ELSE IF upload[r].report_status = "success"
               THEN [@ EXCEPT !.response = "report", !.upc = "done"]
          ELSE [@ EXCEPT !.response = "Processing failed", !.upc = "done"]]
    /\ UNCHANGED <<detector, constructed, tempdir, weights>>
    /\ UNCHANGED <<request, classifier, resolver, server, normalizer, validator, walker>>

\* lines 75-76
Except(r) ==
    /\ upload[r].upc = "except"
    /\ upload' = [upload EXCEPT ![r].response = "Processing failed", ![r].upc = "done"]
    /\ UNCHANGED <<detector, constructed, history, tempdir, weights>>
    /\ UNCHANGED <<request, classifier, resolver, server, normalizer, validator, walker>>

\* download_pdf_report (103-114): generate_pdf_report formats the stored
\* translation at line 611
DownloadPdf(r) ==
    /\ r \in history /\ upload[r].formatted_fields = Unbound
    /\ upload' = [upload EXCEPT ![r].formatted_fields =
                     clean_and_format_document_fields(upload[r].translated_text)]
    /\ UNCHANGED <<detector, constructed, history, tempdir, weights>>
    /\ UNCHANGED <<request, classifier, resolver, server, normalizer, validator, walker>>

\* DocumentForgeryDetector.generate_pdf_report (forgery_detector.py 175-248)
\* for the report of the request: line 225
GeneratePdf(r) ==
    /\ upload[r].response = "report" /\ upload[r].pdf_fields = Unbound
    /\ upload' = [upload EXCEPT ![r].pdf_fields =
                     format_document_fields(upload[r].translated_text)]
    /\ UNCHANGED <<detector, constructed, history, tempdir, weights>>
    /\ UNCHANGED <<request, classifier, resolver, server, normalizer, validator, walker>>

NextUpload ==
    \E r \in 1..MaxRequests :
       \/ Receive(r) \/ Save(r) \/ Check(r) \/ Construct(r) \/ Assign(r)
       \/ ReturnDetector(r) \/ Predict(r) \/ Ocr(r) \/ Translate(r) \/ Unlink(r)
       \/ Status(r) \/ Except(r) \/ DownloadPdf(r) \/ GeneratePdf(r)

SpecUpload == InitUpload /\ [][NextUpload]_vars

(***************************************************************************)
(* The properties                                                          *)
(***************************************************************************)
Distinct(seq) == \A a, b \in 1..Len(seq) : a # b => seq[a] # seq[b]
Index(seq, x) == CHOOSE n \in 1..Len(seq) : seq[n] = x
\* a request through clean_and_format_document_fields that has returned
Formatted == pc = "done" /\ entry = "format"
\* the raw excerpt of a text: the text, or its first 200 characters and the marker
RawExcerpt(t) ==
    <<"Extracted Text:", IF Len(t) <= 200 THEN t ELSE SubSeq(t, 1, 200) \o "...">>

\* C1: when the formatter chooses the canonical field order, the document type
\* it uses is the type that selected the extractor variant in the same run.
C1_SameTypeInOneRun == pc = "format" => fmt_doc_type = doc_type

Rank(label, order, data) ==
    IF \E n \in 1..Len(order) : order[n] \o ":" = label
    THEN CHOOSE n \in 1..Len(order) : order[n] \o ":" = label
    ELSE Len(order) + (CHOOSE n \in 1..Len(data) : data[n][1] \o ":" = label)

\* C4: the formatted sequence holds exactly the present fields of the extracted
\* mapping with their values, the fields of the formatter's canonical order first
\* and in that order, the others after them in insertion order.
C4_CanonicalThenInsertionOrder ==
    (Formatted /\ extracted_data \notin {Unbound, <<>>}) =>
        /\ Len(formatted_fields) = Len(extracted_data)
        /\ \A n \in 1..Len(extracted_data) :
              \E k \in 1..Len(formatted_fields) :
                 formatted_fields[k] = <<extracted_data[n][1] \o ":", extracted_data[n][2]>>
        /\ \A j, k \in 1..Len(formatted_fields) :
              j < k => Rank(formatted_fields[j][1], field_order(fmt_doc_type), extracted_data)
                       < Rank(formatted_fields[k][1], field_order(fmt_doc_type), extracted_data)

\* a canonical field that was inserted later comes out before a field outside
\* the canonical order
C4_ReorderedWithRemaining ==
    /\ Formatted /\ extracted_data \notin {Unbound, <<>>}
    /\ \E j, k \in 1..Len(extracted_data) :
          /\ j < k
          /\ extracted_data[j][1] \notin Range(field_order(fmt_doc_type))
          /\ extracted_data[k][1] \in Range(field_order(fmt_doc_type))
          /\ Index(Keys(formatted_fields), extracted_data[k][1] \o ":")
             < Index(Keys(formatted_fields), extracted_data[j][1] \o ":")

\* C5: no field name occurs twice in the extracted mapping, and no label
\* occurs twice in the formatted sequence.
C5_FieldUniqueness ==
    /\ extracted # Unbound => Distinct(Keys(extracted))
    /\ extracted_data # Unbound => Distinct(Keys(extracted_data))
    /\ formatted_fields # Unbound => Distinct(Keys(formatted_fields))

C5_SeveralFieldsFormatted ==
    /\ Formatted /\ extracted_data \notin {Unbound, <<>>}
    /\ Len(formatted_fields) >= 3
    /\ \E n \in 1..Len(extracted_data) :
          extracted_data[n][1] \in Range(field_order(fmt_doc_type))

\* C6: every (field, value) pair an extractor returns passes
\* is_valid_field_value in its stored form, so the first loop of
\* intelligent_validation_cleanup removes nothing from it.
C6_ExtractedPairsRevalidate ==
    extracted # Unbound =>
        /\ \A n \in 1..Len(extracted) : is_valid_field_value(extracted[n][1], extracted[n][2])
        /\ revalidate(extracted) = extracted

C6_PairsExtracted ==
    /\ pc = "return" /\ extracted # Unbound
    /\ Len(extracted) >= 2
    /\ \E n \in 1..Len(extracted) : extracted[n][2] # lower(extracted[n][2])

\* C7: a second call of intelligent_validation_cleanup on the result of the
\* first returns that result unchanged.
C7_CleanupIdempotent == cpc = "done" => twice = once

\* C8: a Nationality whose value contains 'hellenic' or 'greek', whatever the
\* case, comes out of the cleanup as 'HELLENIC', and one that contains 'esp'
\* comes out as 'ESP'.
C8_NationalityCanonical ==
    (cpc = "done" /\ Has(m, "Nationality")) =>
        LET nat == lower(Get(m, "Nationality")) IN
        /\ (Contains(nat, "hellenic") \/ Contains(nat, "greek")) =>
              Has(once, "Nationality") /\ Get(once, "Nationality") = "HELLENIC"
        /\ (~Contains(nat, "hellenic") /\ ~Contains(nat, "greek") /\ Contains(nat, "esp")) =>
              Has(once, "Nationality") /\ Get(once, "Nationality") = "ESP"

\* what C9 says of the keys keep and drop of the mapping d, given the result r
DuplicateRule(d, r, keep, drop) ==
    (Has(d, keep) /\ Has(d, drop)) =>
        IF Get(d, keep) = Get(d, drop)
        THEN Has(r, keep) /\ ~Has(r, drop)
        ELSE Has(r, keep) /\ Has(r, drop)

\* C9 as stated: of two equal values present in the mapping given to the
\* cleanup, First Surname and Second Surname or Surname and Name, the result
\* keeps the first and not the second; two different values are both kept.
C9_DuplicatesOfInput ==
    cpc = "done" =>
        /\ DuplicateRule(m, once, "First Surname", "Second Surname")
        /\ DuplicateRule(m, once, "Surname", "Name")

\* C9 amended: of two equal values present after the re-validation loop, First
\* Surname and Second Surname or Surname and Name, the result keeps the first
\* and not the second; two different values are both kept.
C9_DuplicatesAfterRevalidation ==
    cpc = "done" =>
        /\ DuplicateRule(revalidated, once, "First Surname", "Second Surname")
        /\ DuplicateRule(revalidated, once, "Surname", "Name")

C9_EqualNameDropped ==
    /\ cpc = "done"
    /\ Has(revalidated, "Surname") /\ Has(revalidated, "Name")
    /\ Get(revalidated, "Surname") = Get(revalidated, "Name")
    /\ Has(once, "Surname") /\ ~Has(once, "Name")

\* C10: the classifier returns 'spanish_dni' exactly when spanish_score is
\* greater than greek_score, and 'greek_passport' otherwise.
C10_SpanishOnlyWhenGreater ==
    dpc = "done" =>
        /\ detected \in {"spanish_dni", "greek_passport"}
        /\ detected = "spanish_dni" <=> spanish_score > greek_score

C10_TieAtFourIsGreek ==
    dpc = "done" /\ spanish_score = 4 /\ greek_score = 4 /\ detected = "greek_passport"

\* C11: every value of the mapping ultimate_extract_document_fields returns
\* is upper-cased and has neither leading nor trailing whitespace.
C11_ValuesUpperAndTrimmed ==
    extracted_data # Unbound =>
        \A n \in 1..Len(extracted_data) :
            /\ upper(extracted_data[n][2]) = extracted_data[n][2]
            /\ strip(extracted_data[n][2]) = extracted_data[n][2]

\* the cleanup has shortened an authority of more than 40 characters
C11_LongAuthorityCleaned ==
    /\ pc = "done" /\ extracted # Unbound /\ extracted_data # Unbound
    /\ Has(extracted, "Issuing Authority") /\ Has(extracted_data, "Issuing Authority")
    /\ Len(Get(extracted, "Issuing Authority")) > 40
    /\ Len(Get(extracted_data, "Issuing Authority")) < 25

\* C12: no exception leaves the pipeline, whatever the text: every request,
\* the empty text and a text in another script included, runs to its return.
C12_NoExceptionPropagates ==
    /\ raised = None
    /\ pc # "raised"

\* a request for a text in another script has returned its sequence
C12_OtherScriptReturned ==
    /\ pc = "done" /\ entry = "format" /\ raised = None
    /\ translated_text = "nationality $$$$$$$$"
    /\ formatted_fields # Unbound /\ formatted_fields # <<>>

\* what an invocation returns when it is the only one the process ever ran
Alone(t) == <<ultimate_extract_document_fields(t), clean_and_format_document_fields(t)>>

\* C13: two invocations on the same input return the same mapping and the
\* same formatted sequence, whatever other inputs were processed before them.
C13_SameInputSameResult ==
    \A f, g \in DOMAIN ipc :
        (ipc[f] = "done" /\ ipc[g] = "done" /\ argument[f] = argument[g])
            => result[f] = result[g]

\* two invocations on one input have returned, one of them in a frame where
\* an earlier call had left its lines
C13_SameInputAfterOtherInputs ==
    /\ ipc # <<>> /\ \A f \in DOMAIN ipc : ipc[f] = "done"
    /\ \E f, g \in DOMAIN ipc :
          /\ argument[f] = argument[g] /\ leftover[f] = <<>> /\ leftover[g] # <<>>
          /\ result[f] = result[g] /\ result[f][1] # <<>>

\* C17: under every interleaving of concurrent invocations, each returns what
\* it returns when run alone.  A result is written once, by Finish, and every
\* interleaving ends with all invocations returned: the results are compared there.
C17_ConcurrentAsAlone ==
    (\A f \in DOMAIN ipc : ipc[f] = "done")
        => \A f \in DOMAIN ipc : result[f] = Alone(argument[f])

\* an invocation has returned while another one, on another input, is under way
C17_ReturnedWhileOtherRuns ==
    /\ ipc # <<>>
    /\ \E f, g \in DOMAIN ipc :
          /\ ipc[f] = "done" /\ ipc[g] = "extract" /\ argument[f] # argument[g]
          /\ result[f][1] # <<>> /\ result[f][2] # <<>>

\* C14: ultimate_preprocessing returns a string for every text, and the
\* empty string for the empty text.
C14_EmptyGivesEmpty ==
    npc \in {"once", "twice"} =>
        /\ normalized # None
        /\ raw_ocr_text = "" => normalized = ""

\* the empty text has been normalized
C14_EmptyNormalized ==
    npc = "once" /\ raw_ocr_text = "" /\ normalized = ""

\* a field-label pattern of lines 151-170 matches the text
LabelIn(t) ==
    \E n \in 1..Len(field_labels_to_remove) :
        search(field_labels_to_remove[n][1], t) # <<>>

\* C15: the string ultimate_preprocessing returns contains no match of any
\* field-label pattern.
C15_NoLabelSurvives ==
    npc \in {"once", "twice"} => ~LabelIn(normalized)

\* no line of the text equals or is contained in another one
NoDuplicates(t) ==
    The({\A a, b \in 1..Len(lines) :
            a # b => ~Contains(strip(lines[a]), strip(lines[b]))
         : lines \in {split(t)}})

\* C16: for a lower-case text without duplicated lines, normalizing the
\* normalized text gives the normalized text again.
C16_IdempotentOnNormalized ==
    (npc = "twice" /\ lower(raw_ocr_text) = raw_ocr_text /\ NoDuplicates(raw_ocr_text))
        => renormalized = normalized

\* C18: the classifier adds 3 to spanish_score when the text contains 8
\* digits followed by a letter, and 3 to greek_score when it contains 1 to 3
\* letters followed by 6 to 8 digits.
C18_ShapesAddThree ==
    dpc \in {"decide", "done"} =>
        /\ spanish_score = keyword_score(spanish_keywords, text_lower)
                             + (IF search(dni_shape, text) # <<>> THEN 3 ELSE 0)
        /\ greek_score = keyword_score(greek_keywords, text_lower)
                             + (IF search(passport_shape, text) # <<>> THEN 3 ELSE 0)

\* the places where keyword k occurs in text t
Occurrences(k, t) ==
    {i \in 1..Len(t) : i + Len(k) - 1 <= Len(t) /\ SubSeq(t, i, i + Len(k) - 1) = k}

\* C19: the scores start at 0; after the keyword loops each score is 2 for
\* every keyword of its list that occurs in the lowercased text, once per
\* keyword however often it occurs, a keyword inside another keyword included.
C19_TwoPerKeywordPresent ==
    /\ dpc = "spanish" => (spanish_score = 0 /\ greek_score = 0)
    /\ dpc = "shapes" =>
          /\ spanish_score = 2 * Cardinality({k \in Range(spanish_keywords) :
                                                 Occurrences(k, text_lower) # {}})
          /\ greek_score = 2 * Cardinality({k \in Range(greek_keywords) :
                                               Occurrences(k, text_lower) # {}})
          /\ Occurrences("espa~a", text_lower) # {} => spanish_score >= 4

\* the country name occurs twice and scores 4: itself and 'esp', once each
C19_RepeatedKeywordCountedOnce ==
    /\ dpc = "shapes" /\ spanish_score = 4
    /\ Cardinality(Occurrences("espa~a", text_lower)) = 2

\* the accepted values a field's patterns offer in a text, each with its place:
\* <<pattern, match, group, value>>
Candidates(field, patterns, t) ==
    UNION {The({UNION {{<<p, k, g, matches[k][g]>> :
                          g \in {h \in 1..Len(matches[k]) :
                                    /\ matches[k][h] # ""
                                    /\ is_valid_field_value(field, matches[k][h])}}
                       : k \in 1..Len(matches)}
                : matches \in {findall(patterns[p], t)}})
           : p \in 1..Len(patterns)}
Before(a, b) ==
    \/ a[1] < b[1]
    \/ a[1] = b[1] /\ a[2] < b[2]
    \/ a[1] = b[1] /\ a[2] = b[2] /\ a[3] < b[3]
Earliest(cands) == CHOOSE c \in cands : \A d \in cands : d = c \/ Before(c, d)

\* C20: the value of a field is the accepted value of the earliest pattern,
\* within it of the earliest match, within it of the left-most group; a field
\* without an accepted value is absent.
C20_EarliestAcceptedValue ==
    (pc = "cleanup" /\ entry = "extract") =>
        \A n \in 1..Len(patterns_of(doc_type)) :
            The({IF cands = {} THEN ~Has(extracted, patterns_of(doc_type)[n][1])
                 ELSE /\ Has(extracted, patterns_of(doc_type)[n][1])
                      /\ Get(extracted, patterns_of(doc_type)[n][1])
                           = strip(upper(Earliest(cands)[4]))
                 : cands \in {Candidates(patterns_of(doc_type)[n][1],
                                         patterns_of(doc_type)[n][2], preprocessed)}})

\* a tuple match whose first group is rejected gave the nationality, and a
\* tuple match with two accepted groups gave the first surname
C20_TupleGroupsInOrder ==
    /\ pc = "cleanup" /\ entry = "extract"
    /\ preprocessed = "mesp01 garcia lopez"
    /\ Has(extracted, "Nationality") /\ Get(extracted, "Nationality") = "ESP"
    /\ Has(extracted, "First Surname") /\ Get(extracted, "First Surname") = "GARCIA"

\* the fields whose values are free-form: numbers, dates, height, authority
FreeForm ==
    {"DNI Number", "Passport Number", "ID Number", "Date of Birth", "Issue Date",
     "Expiry Date", "Valid Until", "Height", "Issuing Authority"}

\* C21: the character-class check never rejects a value of a free-form field:
\* such a value of two or more characters passes, whatever digits or
\* punctuation it contains.
C21_FreeFormExempt ==
    (verdict # <<>> /\ field_name \in FreeForm /\ Len(strip(value)) >= 2)
        => verdict = <<TRUE>>

\* C22: a Gender value is accepted only if its lower-cased, trimmed form is
\* one of 'm', 'f', 'male', 'female'.
C22_GenderOnlyKnownWords ==
    (verdict # <<>> /\ field_name = "Gender")
        => (verdict = <<TRUE>> => strip(lower(value)) \in {"m", "f", "male", "female"})

\* a Gender value with capitals and blanks around it has been accepted
C22_GenderAccepted ==
    field_name = "Gender" /\ value = " FEMALE " /\ verdict = <<TRUE>>

\* C23, as stated: a surname-like value in the invalid-surname set or of a
\* length outside [3,25] is rejected, and a Name value in the invalid-name set
\* or of a length outside [2,20] is rejected.
C23_RejectedByLength ==
    verdict # <<>> =>
        /\ (/\ field_name \in {"First Surname", "Second Surname", "Surname"}
            /\ \/ lower(value) \in invalid_surnames
               \/ Len(value) < 3 \/ Len(value) > 25) => verdict = <<FALSE>>
        /\ (/\ field_name = "Name"
            /\ \/ lower(value) \in invalid_names
               \/ Len(value) < 2 \/ Len(value) > 20) => verdict = <<FALSE>>

\* C23, amended: the token sets and the lengths are tested on the lower-cased
\* value without the whitespace around it.
C23_RejectedByTrimmedLength ==
    verdict # <<>> =>
        /\ (/\ field_name \in {"First Surname", "Second Surname", "Surname"}
            /\ \/ strip(lower(value)) \in invalid_surnames
               \/ Len(strip(value)) < 3 \/ Len(strip(value)) > 25) => verdict = <<FALSE>>
        /\ (/\ field_name = "Name"
            /\ \/ strip(lower(value)) \in invalid_names
               \/ Len(strip(value)) < 2 \/ Len(strip(value)) > 20) => verdict = <<FALSE>>

\* a token of the invalid-surname set with blanks around it has been rejected
C23_PaddedTokenRejected ==
    field_name = "Surname" /\ value = " esp " /\ verdict = <<FALSE>>

\* the line the walk took last, stripped
LastLine == strip(walk_lines[walked])

\* C24: a line is kept exactly when it is not empty, longer than 1 character,
\* not kept already, and not a substring of a kept line at least 1.2 times as
\* long; at exactly 1.2 times the line is dropped.
C24_KeptExactlyWhen ==
    walked > 0 =>
        seen = IF /\ LastLine # "" /\ Len(LastLine) > 1
                  /\ LastLine \notin Range(seen_before)
                  /\ ~\E existing \in Range(seen_before) :
                        /\ Contains(existing, LastLine)
                        /\ 10 * Len(existing) >= 12 * Len(LastLine)
               THEN Append(seen_before, LastLine)
               ELSE seen_before

\* the place of the first line that, stripped, is the line
FirstSeen(line) ==
    CHOOSE i \in 1..Len(walk_lines) :
        /\ strip(walk_lines[i]) = line
        /\ \A j \in 1..(i - 1) : strip(walk_lines[j]) # line

\* C25: whatever the order of the lines, a line that is a substring of another
\* line more than 1.2 times as long is not among the kept lines, and the kept
\* lines are in the order of their first occurrence.
C25_LongestKeptInOrder ==
    walked = Len(walk_lines) =>
        /\ \A i, j \in 1..Len(walk_lines) :
              (/\ Contains(strip(walk_lines[j]), strip(walk_lines[i]))
               /\ 10 * Len(strip(walk_lines[j])) > 12 * Len(strip(walk_lines[i])))
                  => strip(walk_lines[i]) \notin Range(seen)
        /\ \A a, b \in 1..Len(seen) : a < b => FirstSeen(seen[a]) < FirstSeen(seen[b])

\* the length, up to 25, of the run of capitals, '.', '-', '/' and whitespace
\* that starts at place i of a
RunAt(a, i) ==
    CHOOSE l \in 0..25 :
        /\ i + l - 1 <= Len(a)
        /\ \A j \in i..(i + l - 1) : SubSeq(a, j, j) \in AuthChars
        /\ l = 25 \/ i + l > Len(a) \/ SubSeq(a, i + l, i + l) \notin AuthChars
\* the first run of 8 to 25 such characters in a, "" when there is none
FirstRun(a) ==
    IF \A i \in 1..Len(a) : RunAt(a, i) < 8 THEN ""
    ELSE The({SubSeq(a, i, i + RunAt(a, i) - 1)
              : i \in {CHOOSE i \in 1..Len(a) :
                          RunAt(a, i) >= 8 /\ \A j \in 1..(i - 1) : RunAt(a, j) < 8}})
\* the first call of the cleanup has cleaned an authority
AuthorityCleaned ==
    /\ cpc = "return" /\ call = 1
    /\ Has(revalidated, "Issuing Authority") /\ Has(cleaned, "Issuing Authority")

C27_GenderNeverPresent ==
    /\ extracted # Unbound => ~Has(extracted, "Gender")
    /\ extracted_data # Unbound => ~Has(extracted_data, "Gender")
    /\ formatted_fields # Unbound =>
          \A n \in 1..Len(formatted_fields) : formatted_fields[n][1] # "Gender:"
    /\ pc = "done" =>
          \A t \in {spanish_patterns, greek_patterns} :
             \A k \in 1..Len(Get(t, "Gender")) :
                \A g \in Range(findall(Get(t, "Gender")[k], preprocessed)) :
                   /\ Len(g[1]) = 1
                   /\ ~is_valid_field_value("Gender", g[1])

\* a Gender pattern has matched the letter behind the label, and the request
\* has returned without the field
C27_GenderLetterMatched ==
    /\ pc = "done" /\ entry = "extract" /\ preprocessed = "m papadoulis"
    /\ findall(Get(greek_patterns, "Gender")[1], preprocessed) = << <<"m">> >>
    /\ ~Has(extracted, "Gender") /\ ~Has(extracted_data, "Gender")

\* C28: the detector is constructed at most once and every caller of
\* get_detector gets the same instance, also when the first calls overlap.
C28_DetectorConstructedOnce ==
    weights =>
       /\ constructed <= 1
       /\ \A r1, r2 \in DOMAIN upload :
             upload[r1].detector # 0 /\ upload[r2].detector # 0
                => upload[r1].detector = upload[r2].detector

\* C29: when upload_view has answered a request for which it made the
\* temporary file, the file is gone; and a request has a DetectionHistory row
\* only if its report has status 'success'.
C29_TempFileDeletedOnReturn ==
    \A r \in DOMAIN upload :
       /\ upload[r].upc = "done" /\ upload[r].tmp_file_path # 0
             => upload[r].tmp_file_path \notin tempdir
       /\ r \in history
             => upload[r].report_type = "dict" /\ upload[r].report_status = "success"

\* the results of extract_text_from_image that are not a text of the document
Sentinel(ocr) ==
    \/ SubSeq(ocr, 1, 10) = "OCR Error:"
    \/ ocr \in {"No text detected", "No meaningful text detected"}

\* C30: after OCR has ended in a sentinel the translator is not called, the
\* translation is the 'Translation skipped' sentinel, and both formatters
\* return no fields for it.
C30_SentinelNeverTranslated ==
    \A r \in DOMAIN upload :
       upload[r].translated_text # None /\ Sentinel(upload[r].extracted_text)
          => /\ upload[r].translator_calls = 0
             /\ upload[r].translated_text = "Translation skipped (no valid text)."
             /\ upload[r].formatted_fields \in {Unbound, <<>>}
             /\ upload[r].pdf_fields \in {Unbound, <<>>}

=============================================================================
